---- MODULE Spec2Model ----
(***************************************************************************)
(* State-machine model of the Japanese vocabulary reader:                  *)
(*   - callVeniceWithRetry   (web/app/api/source/route.ts and, identical,  *)
(*                            web/app/api/generate/route.ts)               *)
(*   - fetchAllPages and the progress-sync handler                         *)
(*                           (web/app/api/wanikani-kanji/route.ts)         *)
(*   - extractKanjiFromVocab (the two-stage page, and the same three lines *)
(*                            in the generate handler)                     *)
(*   - highlightText         (web/app/page.tsx and, identical, the         *)
(*                            two-stage page)                              *)
(*   - the enrichment handler (web/app/api/kanji/route.ts)                 *)
(*   - the generate handler   (web/app/api/generate/route.ts), its         *)
(*                            translation call running callVeniceWithRetry *)
(* Each part has its own specification; the variables of the other parts   *)
(* are parked at their idle value and left unchanged.                      *)
(***************************************************************************)
EXTENDS Integers, Sequences, FiniteSets, TLC

VARIABLES
  \* ---- callVeniceWithRetry
  maxRetries,   \* the parameter maxRetries
  attempt,      \* the loop variable
  retryPc,      \* "idle" | "loop" | "sleep" | "returned" | "thrown"
  calls,        \* number of upstream requests issued by this call
  last,         \* the outcome of the latest attempt (NoOutcome before the first)
  transient,    \* history: every attempt before the latest one ended in a
                \* 429, a 5xx or a transport failure
  delays,       \* the setTimeout delays scheduled so far, in ms
  result,       \* the value returned (NoResult until the call returns)
  \* ---- the progress-sync handler (POST of wanikani-kanji) and fetchAllPages
  request,      \* the request body the handler was called with
  syncPc,       \* "idle" | "start" | "fetching" | "between" (the await of the
                \* first call resumes) | "fetched" | "responded"
  endpoint,     \* the endpoint of the running fetchAllPages call
  url,          \* its local variable url (NoUrl for null)
  results,      \* its local variable results
  requested,    \* history: the urls the running call has requested
  served,       \* history: what each of these requests ended in
  assignments,  \* the handler's assignments, once fetched
  subjects,     \* the handler's subjects, once fetched
  response,     \* the handler's response (NoResponse until it answers)
  \* ---- the kanji extraction
  vocab,        \* the word list (vocab of the page, vocabList of the handler),
                \* each word the sequence of its UTF-16 code units
  kanjiPc,      \* "idle" | "input" | "page" | "handler": who has extracted
  uniqueKanji,  \* the string extracted, as the sequence of its code units
  \* ---- highlightText
  text,         \* the argument text, as the sequence of its UTF-16 code units
  vocabList,    \* the component's vocabList at the time of the call
  hlPc,         \* "idle" | "input" | "null" (returned null) | "rendered"
  segments,     \* the children of the returned element, in order
  \* ---- the enrichment handler (POST of kanji)
  enrichRequest,  \* the request body the handler was called with
  enrichPc,       \* "idle" | "start" | "waiting" (in Promise.all) | "responded"
  pending,        \* the positions whose lookup has not completed
  lookups,        \* history: what the lookup of each position ended in
  completed,      \* history: the positions in the order their lookups ended
  values,         \* the values Promise.all has collected, by position
  enrichResponse, \* the handler's response (NoEnrichResponse until it answers)
  \* ---- the generate handler (POST of generate)
  genRequest,     \* the request body the handler was called with
  genApiKey,      \* process.env.VENICE_API_KEY is set
  genPc,          \* "idle" | "start" | "news" | "page" | "extract" (the call
                  \* named is in flight) | "translating" (inside
                  \* callVeniceWithRetry) | "responded"
  genCalls,       \* history: the requests issued to acquire the source
  sourceContent,  \* the local variable sourceContent
  upstream,       \* history: what the latest acquisition request to the
                  \* generation upstream ended in
  acquired,       \* history: the JSON of the acquisition reply, once read
  rawReply,       \* history: the JSON of the translation reply, once read
  genResponse,    \* the handler's response (NoGenResponse until it answers)
  \* ---- the source handler (POST of source)
  srcRequest,     \* the request body the handler was called with
  srcApiKey,      \* process.env.VENICE_API_KEY is set
  srcPc,          \* "idle" | "start" | "page" (the GET of the page is in
                  \* flight) | "calling" (inside callVeniceWithRetry) |
                  \* "responded"
  srcCalls,       \* history: the requests the handler has issued itself
  srcReply,       \* history: the JSON callVeniceWithRetry returned as data
  srcResponse,    \* the handler's response (NoSrcResponse until it answers)
  \* ---- the structured-output extraction of the generate handler
  exInput,        \* the model text (text) and, when the text is one of the
                  \* three forms of a pair of strings, the form and the pair
  exPc,           \* "idle" | "input" | "done" | "raised"
  pair,           \* the locals japanese and english behind line 441
  \* ---- two handler runs in one process
  runs,           \* of each run: its request, where it stands ("idle" |
                  \* "start" | "calling" | "sleeping" | "returned" |
                  \* "responded"), history: what its requests ended in and
                  \* the JSON its call returned, the result of its call and
                  \* its response
  frames,         \* the activation records of callVeniceWithRetry: of each
                  \* the value of its variable attempt
  \* ---- the client (the two-stage page)
  page,           \* the state of the component Home
  clientRuns,     \* of each run of handleGenerate where it stands ("idle" |
                  \* "source" | "translate" | "text" | "done")
  kanjiLookups,   \* the requests of fetchKanjiInfo that have not settled:
                  \* of each the characters it asks for
  clientHistory   \* history: the uploads so far, the run that set the
                  \* content last, whether the latest step ended a call of
                  \* handleGenerate, whether a lookup has failed, whether
                  \* handleGenerate was called during a run

retryVars ==
  <<maxRetries, attempt, retryPc, calls, last, transient, delays, result>>

syncVars ==
  <<request, syncPc, endpoint, url, results, requested, served,
    assignments, subjects, response>>

kanjiVars == <<vocab, kanjiPc, uniqueKanji>>

hlVars == <<text, vocabList, hlPc, segments>>

enrichVars ==
  <<enrichRequest, enrichPc, pending, lookups, completed, values,
    enrichResponse>>

genVars ==
  <<genRequest, genApiKey, genPc, genCalls, sourceContent, upstream, acquired,
    rawReply, genResponse>>

srcVars ==
  <<srcRequest, srcApiKey, srcPc, srcCalls, srcReply, srcResponse>>

exVars == <<exInput, exPc, pair>>

runVars == <<runs, frames>>

clientVars == <<page, clientRuns, kanjiLookups, clientHistory>>

vars ==
  <<retryVars, syncVars, kanjiVars, hlVars, enrichVars, genVars, srcVars,
    exVars, runVars, clientVars>>

\* what an action of one part leaves alone
notRetryVars ==
  <<syncVars, kanjiVars, hlVars, enrichVars, genVars, srcVars, exVars,
    runVars, clientVars>>
notSyncVars ==
  <<retryVars, kanjiVars, hlVars, enrichVars, genVars, srcVars, exVars,
    runVars, clientVars>>
notKanjiVars ==
  <<retryVars, syncVars, hlVars, enrichVars, genVars, srcVars, exVars,
    runVars, clientVars>>
notHlVars ==
  <<retryVars, syncVars, kanjiVars, enrichVars, genVars, srcVars, exVars,
    runVars, clientVars>>
notEnrichVars ==
  <<retryVars, syncVars, kanjiVars, hlVars, genVars, srcVars, exVars,
    runVars, clientVars>>
\* the generate handler runs callVeniceWithRetry itself
notGenVars ==
  <<syncVars, kanjiVars, hlVars, enrichVars, srcVars, exVars, runVars, clientVars>>
\* so does the source handler
notSrcVars ==
  <<syncVars, kanjiVars, hlVars, enrichVars, genVars, exVars, runVars, clientVars>>
notExVars ==
  <<retryVars, syncVars, kanjiVars, hlVars, enrichVars, genVars, srcVars,
    runVars, clientVars>>
notRunVars ==
  <<retryVars, syncVars, kanjiVars, hlVars, enrichVars, genVars, srcVars,
    exVars, clientVars>>
notClientVars ==
  <<retryVars, syncVars, kanjiVars, hlVars, enrichVars, genVars, srcVars,
    exVars, runVars>>

-----------------------------------------------------------------------------
(* Bounds of the model                                                     *)

\* largest maxRetries tried (the default of the code is 2)
MaxRetriesBound == 3

\* longest string a reply carries as japanese or english, in characters
MaxValueLen == 2

\* longest reply made of reasoning-trace delimiters, in tokens
MaxTraceLen == 4

\* largest number of runs of handleGenerate the user starts
MaxRuns == 2

\* largest number of vocabulary files the user loads
MaxUploads == 1

\* largest number of pages a collection is split into
MaxPages == 3

\* largest number of items on one page
MaxPageItems == 2

\* largest number of kanji subjects and of assignments the handler has fetched
MaxSubjects == 3
MaxAssignments == 2

\* largest number of words in a vocabulary list
MaxWords == 3

\* largest length of a text given to highlightText, and largest number of
\* entries of the vocabulary list it is rendered with
MaxTextLen == 3
MaxVocab == 2

\* largest number of characters in one enrichment request
MaxChars == 2

-----------------------------------------------------------------------------
(* callVeniceWithRetry                                                     *)

\* HTTP statuses the upstream may answer with: a success, a status that is
\* neither success nor 4xx nor 5xx, two client errors, the rate limit, two
\* server errors.
Statuses == {200, 304, 401, 404, 429, 500, 503}

\* Bodies a response may carry.
Bodies == {"b1", "b2"}

\* How reading the body of a response ends: "ok" both response.json() and
\* response.text() resolve; "badjson" the body is no JSON, so response.json()
\* rejects while response.text() resolves; "abort" the connection breaks while
\* the body is read, so both reject.
Reads == {"ok", "badjson", "abort"}

NoOutcome == [kind |-> "none", status |-> 0, read |-> "ok", body |-> "none"]

\* fetch() rejects: no response at all.
TransportFailure == [kind |-> "throw", status |-> 0, read |-> "ok", body |-> "none"]

\* What one upstream request can end in.
Outcomes ==
  {TransportFailure} \cup
  [kind : {"resp"}, status : Statuses, read : Reads, body : Bodies]

NoResult == [ok |-> FALSE, status |-> -1, data |-> "none", errorText |-> "none"]

\* response.ok
ResponseOk(status) == status >= 200 /\ status <= 299

\* Math.pow(2, n) for the n the loop produces
RECURSIVE Pow2(_)
Pow2(n) == IF n <= 0 THEN 1 ELSE 2 * Pow2(n - 1)

\* A backoff that grows by one second with every attempt.
BackoffDelayLinear(a) == (a + 1) * 1000

\* const delay = Math.pow(2, attempt) * 1000
BackoffDelay(a) == Pow2(a) * 1000

Return(r) == [kind |-> "return", value |-> r, delay |-> 0]
Retry(d)  == [kind |-> "retry", value |-> NoResult, delay |-> d]
Raise     == [kind |-> "raise", value |-> NoResult, delay |-> 0]

\* A try block that tests for a retry before it tests response.ok.
TryBlockRetryBeforeOk(o, a, m) ==
  IF o.kind = "throw" THEN Raise
  ELSE IF a < m THEN Retry(BackoffDelay(a))
  ELSE IF o.read # "ok" THEN Raise
  ELSE IF ResponseOk(o.status)
    THEN Return([ok |-> TRUE, status |-> o.status, data |-> o.body,
                 errorText |-> "none"])
    ELSE Return([ok |-> FALSE, status |-> o.status, data |-> "none",
                 errorText |-> o.body])

\* The body of the try block of one loop iteration, for attempt a of a call
\* with maxRetries m whose request ends in outcome o.  "raise" stands for an
\* exception leaving the try block.
TryBlock(o, a, m) ==
  IF o.kind = "throw" THEN Raise
  ELSE IF ResponseOk(o.status) THEN
    IF o.read = "ok"
      THEN Return([ok |-> TRUE, status |-> o.status, data |-> o.body,
                   errorText |-> "none"])
      ELSE Raise
  ELSE IF o.status >= 400 /\ o.status < 500 /\ o.status # 429 THEN
    IF o.read # "abort"
      THEN Return([ok |-> FALSE, status |-> o.status, data |-> "none",
                   errorText |-> o.body])
      ELSE Raise
  ELSE IF a < m THEN Retry(BackoffDelay(a))
  ELSE IF o.read # "abort"
    THEN Return([ok |-> FALSE, status |-> o.status, data |-> "none",
                 errorText |-> o.body])
    ELSE Raise

\* A catch block whose retry test is off by one.
CatchBlockOffByOne(a, m) ==
  IF a <= m THEN Retry(BackoffDelay(a))
  ELSE Return([ok |-> FALSE, status |-> 0, data |-> "none",
               errorText |-> "exception"])

\* The catch block of the iteration.
CatchBlock(a, m) ==
  IF a < m THEN Retry(BackoffDelay(a))
  ELSE Return([ok |-> FALSE, status |-> 0, data |-> "none",
               errorText |-> "exception"])

\* A loop body that has lost its catch block.
IterationNoCatch(o, a, m) == TryBlock(o, a, m)

\* One iteration of the for loop: try { ... } catch { ... }
Iteration(o, a, m) ==
  LET t == TryBlock(o, a, m)
  IN  IF t.kind = "raise" THEN CatchBlock(a, m) ELSE t

\* An attempt that ended in a transport failure, an HTTP 5xx or a 429.
TransientFailure(o) ==
  \/ o.kind = "throw"
  \/ o.kind = "resp" /\ (o.status = 429 \/ (o.status >= 500 /\ o.status <= 599))

\* The state before the first iteration, for a call with maxRetries = m.
RetryStart(m) ==
  /\ maxRetries = m
  /\ attempt = 0
  /\ retryPc = "loop"
  /\ calls = 0
  /\ last = NoOutcome
  /\ transient = TRUE
  /\ delays = <<>>
  /\ result = NoResult

RetryInit == \E m \in -1 .. MaxRetriesBound : RetryStart(m)

\* callVeniceWithRetry is not running.
RetryIdle ==
  /\ maxRetries = 0
  /\ attempt = 0
  /\ retryPc = "idle"
  /\ calls = 0
  /\ last = NoOutcome
  /\ transient = TRUE
  /\ delays = <<>>
  /\ result = NoResult

\* One pass through the loop body: the request is issued, ends in outcome o,
\* and the iteration returns, schedules the backoff timer, or throws.
Attempt(o) ==
  /\ retryPc = "loop"
  /\ attempt <= maxRetries
  /\ calls' = calls + 1
  /\ last' = o
  /\ transient' = (transient /\ (calls = 0 \/ TransientFailure(last)))
  /\ LET it == Iteration(o, attempt, maxRetries)
     IN  /\ retryPc' = CASE it.kind = "return" -> "returned"
                         [] it.kind = "retry"  -> "sleep"
                         [] OTHER              -> "thrown"
         /\ result' = IF it.kind = "return" THEN it.value ELSE result
         /\ delays' = IF it.kind = "retry" THEN Append(delays, it.delay) ELSE delays
  /\ UNCHANGED <<maxRetries, attempt, notRetryVars>>

\* The backoff timer fires: continue, attempt++.
Backoff ==
  /\ retryPc = "sleep"
  /\ attempt' = attempt + 1
  /\ retryPc' = "loop"
  /\ UNCHANGED <<maxRetries, calls, last, transient, delays, result, notRetryVars>>

\* The loop condition attempt <= maxRetries is false: the return after the loop.
LoopExit ==
  /\ retryPc = "loop"
  /\ attempt > maxRetries
  /\ retryPc' = "returned"
  /\ result' = [ok |-> FALSE, status |-> 0, data |-> "none",
                errorText |-> "Max retries exceeded"]
  /\ UNCHANGED <<maxRetries, attempt, calls, last, transient, delays, notRetryVars>>

RetryNext ==
  \/ \E o \in Outcomes : Attempt(o)
  \/ Backoff
  \/ LoopExit


-----------------------------------------------------------------------------
(* fetchAllPages and the progress-sync handler up to the end of its two    *)
(* fetchAllPages calls                                                     *)

NoUrl == [ep |-> "none", n |-> 0]

\* A collection is served as pages 1 .. MaxPages of its endpoint.
Urls == [ep : {"assignments", "subjects"}, n : 1 .. MaxPages]

\* `https://api.wanikani.com/v2/${endpoint}`, with `?${searchParams}` appended
\* when params are given: the first page of the collection.
StartUrl(ep) == [ep |-> ep, n |-> 1]

\* The k-th item of the page at url u.  fetchAllPages<T> never looks into an
\* item, so an item is named by where the server keeps it.
Item(u, k) == <<u.ep, u.n, k>>

\* data.data of a page with the given number of items
PageItems(u, size) == [k \in 1 .. size |-> Item(u, k)]

\* Request bodies: no JSON at all, or an object whose apiKey is missing, the
\* empty string, not a string, or a non-empty string.
Requests == {"malformed", "no apiKey", "empty apiKey", "numeric apiKey", "apiKey"}

\* !apiKey || typeof apiKey !== 'string'
KeyRejected(req) == req \in {"no apiKey", "empty apiKey", "numeric apiKey"}

\* Statuses and reason phrases the WaniKani server may answer with.
PageStatuses == {200, 304, 401, 403, 500}
StatusTexts == {"", "Invalid API key"}

\* pages.next_url of the page at u: null, or a later page of the collection
\* (the collection is finite and its pages do not loop).
NextUrls(u) == {NoUrl} \cup {v \in Urls : v.ep = u.ep /\ v.n > u.n}

\* What the request for url u can end in: fetch rejects; a response that is
\* not ok; an ok response whose body cannot be read as a page; a page.
PageOutcomes(u) ==
  {[kind |-> "throw", status |-> 0, statusText |-> "", read |-> "ok",
    size |-> 0, next |-> NoUrl]}
  \cup [kind : {"resp"}, status : PageStatuses \ {200}, statusText : StatusTexts,
        read : {"ok"}, size : {0}, next : {NoUrl}]
  \cup [kind : {"resp"}, status : {200}, statusText : {""},
        read : {"fail"}, size : {0}, next : {NoUrl}]
  \cup [kind : {"resp"}, status : {200}, statusText : {""},
        read : {"ok"}, size : 0 .. MaxPageItems, next : NextUrls(u)]

\* Error messages, as the template text and the values filled into it.
InvalidKeyError ==
  [text |-> "Invalid API key. Please check your WaniKani API key.",
   status |-> 0, statusText |-> ""]
ApiError(status, statusText) ==
  [text |-> "WaniKani API error: ${status} ${statusText}",
   status |-> status, statusText |-> statusText]
FetchFailedError == [text |-> "fetch failed", status |-> 0, statusText |-> ""]
BodyError == [text |-> "body is not a page", status |-> 0, statusText |-> ""]
NoError == [text |-> "", status |-> 0, statusText |-> ""]

\* error.message.includes('Invalid API key'), over the texts of the model
IncludesInvalidApiKey(err) ==
  \/ err.text = InvalidKeyError.text
  \/ err.statusText = "Invalid API key"

NoResponse == [status |-> 0, error |-> NoError, kanji |-> <<>>, count |-> -1]

\* NextResponse.json({ error }, { status })
ErrorResponse(err, status) ==
  [status |-> status, error |-> err, kanji |-> <<>>, count |-> -1]

\* The catch block of the handler.
CatchResponse(err) ==
  ErrorResponse(err, IF IncludesInvalidApiKey(err) THEN 401 ELSE 500)

\* One pass through the while loop of fetchAllPages for url u and outcome o:
\* the error thrown, or the items pushed and the next value of url.
PageStepAppendsNothing(u, rs, o) ==
  IF o.kind = "throw" THEN [thrown |-> TRUE, error |-> FetchFailedError, results |-> rs, url |-> u]
  ELSE IF ~ResponseOk(o.status) THEN
    [thrown |-> TRUE, results |-> rs, url |-> u,
     error |-> IF o.status = 401 THEN InvalidKeyError ELSE ApiError(o.status, o.statusText)]
  ELSE IF o.read # "ok" THEN [thrown |-> TRUE, error |-> BodyError, results |-> rs, url |-> u]
  ELSE [thrown |-> FALSE, error |-> NoError, results |-> PageItems(u, o.size), url |-> o.next]

PageStepIgnoresStatus(u, rs, o) ==
  IF o.kind = "throw" THEN [thrown |-> TRUE, error |-> FetchFailedError, results |-> rs, url |-> u]
  ELSE IF o.read # "ok" THEN [thrown |-> TRUE, error |-> BodyError, results |-> rs, url |-> u]
  ELSE [thrown |-> FALSE, error |-> NoError,
        results |-> rs \o PageItems(u, o.size), url |-> o.next]

PageStep(u, rs, o) ==
  IF o.kind = "throw" THEN [thrown |-> TRUE, error |-> FetchFailedError, results |-> rs, url |-> u]
  ELSE IF ~ResponseOk(o.status) THEN
    [thrown |-> TRUE, results |-> rs, url |-> u,
     error |-> IF o.status = 401 THEN InvalidKeyError ELSE ApiError(o.status, o.statusText)]
  ELSE IF o.read # "ok" THEN [thrown |-> TRUE, error |-> BodyError, results |-> rs, url |-> u]
  ELSE [thrown |-> FALSE, error |-> NoError,
        results |-> rs \o PageItems(u, o.size), url |-> o.next]

\* The handler has not been called.
SyncIdle ==
  /\ request = "none"
  /\ syncPc = "idle"
  /\ endpoint = "none"
  /\ url = NoUrl
  /\ results = <<>>
  /\ requested = <<>>
  /\ served = <<>>
  /\ assignments = <<>>
  /\ subjects = <<>>
  /\ response = NoResponse

\* The handler is called with request body req.
SyncStart(req) ==
  /\ request = req
  /\ syncPc = "start"
  /\ endpoint = "none"
  /\ url = NoUrl
  /\ results = <<>>
  /\ requested = <<>>
  /\ served = <<>>
  /\ assignments = <<>>
  /\ subjects = <<>>
  /\ response = NoResponse

PagesInit == \E req \in Requests : SyncStart(req)

\* Entry of fetchAllPages(ep, ...): results = [], url = the start url.
CallFetchAllPages(ep) ==
  /\ endpoint' = ep
  /\ url' = StartUrl(ep)
  /\ results' = <<>>
  /\ requested' = <<>>
  /\ served' = <<>>

\* The handler up to its first await of a page: request.json(), the check of
\* apiKey, and the entry of fetchAllPages('assignments', apiKey).
Validate ==
  /\ syncPc = "start"
  /\ IF request = "malformed" THEN
       /\ syncPc' = "responded"
       /\ response' = CatchResponse(BodyError)
       /\ UNCHANGED <<endpoint, url, results, requested, served>>
     ELSE IF KeyRejected(request) THEN
       /\ syncPc' = "responded"
       /\ response' =
            ErrorResponse([text |-> "WaniKani API key is required",
                           status |-> 0, statusText |-> ""], 400)
       /\ UNCHANGED <<endpoint, url, results, requested, served>>
     ELSE
       /\ syncPc' = "fetching"
       /\ CallFetchAllPages("assignments")
       /\ UNCHANGED response
  /\ UNCHANGED <<request, assignments, subjects, notSyncVars>>

\* The request for the current url ends in outcome o.  The loop body runs; on
\* an error the handler's catch block answers; when url becomes null the call
\* returns its results to the handler, which starts the second call or has
\* both lists.
FetchPage(o) ==
  /\ syncPc = "fetching"
  /\ url # NoUrl
  /\ requested' = Append(requested, url)
  /\ served' = Append(served, o)
  /\ LET st == PageStep(url, results, o)
     IN  IF st.thrown THEN
           /\ syncPc' = "responded"
           /\ response' = CatchResponse(st.error)
           /\ UNCHANGED <<endpoint, url, results, assignments, subjects>>
         ELSE IF st.url # NoUrl THEN
           /\ url' = st.url
           /\ results' = st.results
           /\ UNCHANGED <<syncPc, endpoint, assignments, subjects, response>>
         ELSE IF endpoint = "assignments" THEN
           /\ assignments' = st.results
           /\ url' = NoUrl
           /\ results' = st.results
           /\ syncPc' = "between"
           /\ UNCHANGED <<endpoint, subjects, response>>
         ELSE
           /\ subjects' = st.results
           /\ url' = NoUrl
           /\ results' = st.results
           /\ syncPc' = "fetched"
           /\ UNCHANGED <<endpoint, assignments, response>>
  /\ UNCHANGED <<request, notSyncVars>>

\* fetchAllPages('assignments') has returned: the handler enters
\* fetchAllPages('subjects', apiKey, { types: 'kanji' }).
NextCall ==
  /\ syncPc = "between"
  /\ syncPc' = "fetching"
  /\ CallFetchAllPages("subjects")
  /\ UNCHANGED <<request, assignments, subjects, response, notSyncVars>>

PagesNext ==
  \/ Validate
  \/ \E o \in PageOutcomes(url) : FetchPage(o)
  \/ NextCall


-----------------------------------------------------------------------------
(* The progress-sync handler from the end of its two fetchAllPages calls   *)
(* to its response                                                         *)

KNOWN_THRESHOLD == 5

\* A subject without data.level.
NoLevel == -1

Characters == {"A", "B"}
Levels == {NoLevel, 1}
SrsStages == {KNOWN_THRESHOLD - 1, KNOWN_THRESHOLD}

\* The subjects a page of the subjects collection can hold, and the lists of
\* them the handler can have fetched.  The id is the identity of a subject, so
\* the ids of a list are distinct; the handler only compares ids and
\* characters for equality, so the ids are named in list order and the
\* characters of the first subject are named "A".
SubjectsWithId(i) ==
  [id : {i}, object : {"kanji", "vocabulary"}, characters : Characters, level : Levels]

RECURSIVE SubjectListsOfLen(_)
SubjectListsOfLen(n) ==
  IF n = 0 THEN {<<>>}
  ELSE {Append(sl, s) : sl \in SubjectListsOfLen(n - 1),
                        s \in {t \in SubjectsWithId(n) :
                                 n = 1 => t.characters = "A"}}

SubjectLists == UNION {SubjectListsOfLen(n) : n \in 0 .. MaxSubjects}

\* An assignment names a subject of the list or one that is not in it.  The
\* loop over the assignments does nothing for an assignment below the
\* threshold whatever its subject is, so such an assignment names subject 1.
Assignments ==
  {a \in [subject_id : 1 .. MaxSubjects, srs_stage : SrsStages] :
     a.srs_stage < KNOWN_THRESHOLD => a.subject_id = 1}

AssignmentLists == UNION {[1 .. n -> Assignments] : n \in 0 .. MaxAssignments}

\* subjectMap.set(subject.id, subject): a Map keeps its keys in insertion
\* order, and setting a key it holds replaces the value in place.
MapSet(map, s) ==
  IF \E i \in 1 .. Len(map) : map[i].id = s.id
    THEN [i \in 1 .. Len(map) |-> IF map[i].id = s.id THEN s ELSE map[i]]
    ELSE Append(map, s)

\* for (const subject of subjects) subjectMap.set(subject.id, subject)
RECURSIVE BuildSubjectMap(_, _)
BuildSubjectMap(subs, map) ==
  IF subs = <<>> THEN map
  ELSE BuildSubjectMap(Tail(subs), MapSet(map, Head(subs)))

\* subjectMap.get(id), as the list of the values found (none or one)
MapGet(map, id) == SelectSeq(map, LAMBDA s : s.id = id)

\* A loop over the assignments that has lost its threshold test.
RECURSIVE KnownKanjiAnyStage(_, _)
KnownKanjiAnyStage(asgs, map) ==
  IF asgs = <<>> THEN <<>>
  ELSE LET a == Head(asgs)
           found == MapGet(map, a.subject_id)
           rest == KnownKanjiAnyStage(Tail(asgs), map)
       IN  IF found = <<>> \/ found[1].object # "kanji" THEN rest
           ELSE <<found[1].characters>> \o rest

\* The loop over the assignments: knownKanji
RECURSIVE KnownKanji(_, _)
KnownKanji(asgs, map) ==
  IF asgs = <<>> THEN <<>>
  ELSE LET a == Head(asgs)
           found == MapGet(map, a.subject_id)
           rest == KnownKanji(Tail(asgs), map)
       IN  IF found = <<>> \/ found[1].object # "kanji" THEN rest
           ELSE IF a.srs_stage >= KNOWN_THRESHOLD
             THEN <<found[1].characters>> \o rest
             ELSE rest

\* subject?.data.level || 0
LevelOrZero(found) ==
  IF found = <<>> \/ found[1].level = NoLevel \/ found[1].level = 0
    THEN 0
    ELSE found[1].level

\* knownKanji.map(char => ({ char, level })), the level being that of the
\* first value of the map whose characters are char
KanjiWithLevel(known, map) ==
  [i \in 1 .. Len(known) |->
     [char |-> known[i],
      level |-> LevelOrZero(SelectSeq(map, LAMBDA s : s.characters = known[i]))]]

\* kanjiWithLevel.sort((a, b) => a.level - b.level): Array.prototype.sort is
\* stable, so this is an insertion of each element behind the elements that
\* do not compare greater.
RECURSIVE InsertByLevel(_, _)
InsertByLevel(sorted, x) ==
  IF sorted = <<>> THEN <<x>>
  ELSE IF Head(sorted).level - x.level <= 0
    THEN <<Head(sorted)>> \o InsertByLevel(Tail(sorted), x)
    ELSE <<x>> \o sorted

RECURSIVE SortByLevel(_, _)
SortByLevel(todo, sorted) ==
  IF todo = <<>> THEN sorted
  ELSE SortByLevel(Tail(todo), InsertByLevel(sorted, Head(todo)))

\* A handler that answers an empty list with an error.
SyncResponseEmptyIsError(asgs, subs) ==
  LET map == BuildSubjectMap(subs, <<>>)
      sortedKanji == [i \in 1 .. Len(KnownKanji(asgs, map)) |->
                        SortByLevel(KanjiWithLevel(KnownKanji(asgs, map), map), <<>>)[i].char]
  IN  IF sortedKanji = <<>>
        THEN ErrorResponse([text |-> "No kanji found", status |-> 0, statusText |-> ""], 404)
        ELSE [status |-> 200, error |-> NoError, kanji |-> sortedKanji,
              count |-> Len(sortedKanji)]

\* The handler from the subject map to its response.
SyncResponse(asgs, subs) ==
  LET map == BuildSubjectMap(subs, <<>>)
      knownKanji == KnownKanji(asgs, map)
      kanjiWithLevel == SortByLevel(KanjiWithLevel(knownKanji, map), <<>>)
      sortedKanji == [i \in 1 .. Len(kanjiWithLevel) |-> kanjiWithLevel[i].char]
  IN  [status |-> 200, error |-> NoError, kanji |-> sortedKanji,
       count |-> Len(sortedKanji)]

\* Both fetchAllPages calls have returned these lists.
SyncFetched(asgs, subs) ==
  /\ request = "apiKey"
  /\ syncPc = "fetched"
  /\ endpoint = "subjects"
  /\ url = NoUrl
  /\ results = subs
  /\ requested = <<>>
  /\ served = <<>>
  /\ assignments = asgs
  /\ subjects = subs
  /\ response = NoResponse

SyncInit == \E asgs \in AssignmentLists, subs \in SubjectLists : SyncFetched(asgs, subs)

\* The rest of the handler: the subject map, the filter, the sort, the
\* response.
Classify ==
  /\ syncPc = "fetched"
  /\ syncPc' = "responded"
  /\ response' = SyncResponse(assignments, subjects)
  /\ UNCHANGED <<request, endpoint, url, results, requested, served,
                 assignments, subjects, notSyncVars>>

SyncNext == Classify

\* The handler is called again with the same key while the server holds the
\* same assignments and subjects: the rest of the handler runs on the same
\* two lists.
Reclassify ==
  /\ syncPc = "responded"
  /\ syncPc' = "rerun"
  /\ response' = SyncResponse(assignments, subjects)
  /\ UNCHANGED <<request, endpoint, url, results, requested, served,
                 assignments, subjects, notSyncVars>>

-----------------------------------------------------------------------------
(* The kanji extraction: extractKanjiFromVocab of the page and the same    *)
(* three lines of the generate handler                                     *)

\* kanjiRegex, /[\u4e00-\u9faf\u3400-\u4dbf]/g: the bounds of its two ranges
CJK_FIRST == 19968
CJK_LAST == 40879
EXT_A_FIRST == 13312
EXT_A_LAST == 19903

\* The words a list is made of: the empty word, "a", U+4E5D, U+4E8C U+4E5D,
\* U+3400, U+9FAF U+3042, U+4DBF U+4DC0, U+4E00 U+9FB0, U+33FF U+4E8C U+4E8C,
\* and U+20000 as its surrogate pair.
Words ==
  { <<>>, <<97>>, <<20061>>, <<20108, 20061>>, <<13312>>, <<40879, 12354>>,
    <<19903, 19904>>, <<19968, 40880>>, <<13311, 20108, 20108>>, <<55360, 56320>> }

VocabLists == UNION {[1 .. n -> Words] : n \in 0 .. MaxWords}

\* vocab.join('')
RECURSIVE JoinWords(_)
JoinWords(list) ==
  IF list = <<>> THEN <<>> ELSE Head(list) \o JoinWords(Tail(list))

\* One code unit matches kanjiRegex (the regex has no u flag: it sees code
\* units).
MatchesKanjiRegex(c) ==
  \/ c >= CJK_FIRST /\ c <= CJK_LAST
  \/ c >= EXT_A_FIRST /\ c <= EXT_A_LAST

\* str.match(kanjiRegex) || []: the matches in the order of the string
MatchAll(str) == SelectSeq(str, MatchesKanjiRegex)

\* A Set that keeps every element it is given.
NewSetKeepsAll(seq) == seq

\* [...new Set(seq)]: the first occurrence of each element, in order
RECURSIVE NewSet(_)
NewSet(seq) ==
  IF seq = <<>> THEN <<>>
  ELSE LET init == NewSet(SubSeq(seq, 1, Len(seq) - 1))
           x == seq[Len(seq)]
       IN  IF \E i \in 1 .. Len(init) : init[i] = x THEN init ELSE Append(init, x)

\* .sort() of one-unit strings: ascending by code unit
RECURSIVE InsertUnit(_, _)
InsertUnit(sorted, x) ==
  IF sorted = <<>> THEN <<x>>
  ELSE IF Head(sorted) <= x
    THEN <<Head(sorted)>> \o InsertUnit(Tail(sorted), x)
    ELSE <<x>> \o sorted

\* .reverse() in the place of .sort()
SortUnitsReverses(seq) == [i \in 1 .. Len(seq) |-> seq[Len(seq) + 1 - i]]

RECURSIVE SortUnits(_)
SortUnits(seq) ==
  IF seq = <<>> THEN <<>>
  ELSE InsertUnit(SortUnits(SubSeq(seq, 1, Len(seq) - 1)), seq[Len(seq)])

\* extractKanjiFromVocab(vocab); .join('') of one-unit strings is the
\* sequence of the units
extractKanjiFromVocab(list) == SortUnits(NewSet(MatchAll(JoinWords(list))))

\* No extraction is running.
KanjiIdle ==
  /\ vocab = <<>>
  /\ kanjiPc = "idle"
  /\ uniqueKanji = <<>>

KanjiInit ==
  \E list \in VocabLists :
    /\ vocab = list
    /\ kanjiPc = "input"
    /\ uniqueKanji = <<>>

\* The page calls extractKanjiFromVocab(vocabList).
PageExtract ==
  /\ kanjiPc = "input"
  /\ kanjiPc' = "page"
  /\ uniqueKanji' = extractKanjiFromVocab(vocab)
  /\ UNCHANGED <<vocab, notKanjiVars>>

\* The generate handler computes uniqueKanji from vocabList.
HandlerExtract ==
  /\ kanjiPc = "input"
  /\ kanjiPc' = "handler"
  /\ uniqueKanji' = SortUnits(NewSet(MatchAll(JoinWords(vocab))))
  /\ UNCHANGED <<vocab, notKanjiVars>>

KanjiNext ==
  \/ PageExtract
  \/ HandlerExtract

\* The page calls extractKanjiFromVocab(vocabList) again, vocabList being
\* unchanged.
ReExtract ==
  /\ kanjiPc = "page"
  /\ kanjiPc' = "rerun"
  /\ uniqueKanji' = extractKanjiFromVocab(vocab)
  /\ UNCHANGED <<vocab, notKanjiVars>>

\* extractKanjiFromVocab is applied to its own output: the string it
\* returned is the one word of the list.
ExtractOwnOutput ==
  /\ kanjiPc = "page"
  /\ kanjiPc' = "own"
  /\ vocab' = <<uniqueKanji>>
  /\ uniqueKanji' = extractKanjiFromVocab(<<uniqueKanji>>)
  /\ UNCHANGED notKanjiVars

\* The classification and the extraction, each followed by its repetition.
RerunNext ==
  \/ Classify
  \/ Reclassify
  \/ PageExtract
  \/ ReExtract
  \/ ExtractOwnOutput

-----------------------------------------------------------------------------
(* highlightText: the scan that splits a text into plain and highlighted   *)
(* segments                                                                *)

\* The code units a text is made of: "a", U+3400, U+4E00, U+4E5D, U+9FAF and
\* U+9FB0.
TextUnits == {97, 13312, 19968, 20061, 40879, 40880}

Texts == UNION {[1 .. n -> TextUnits] : n \in 0 .. MaxTextLen}

\* The entries of vocabList: the empty word, U+4E5D, "a" U+4E00, and
\* U+3400 U+9FB0.
HlWords == { <<>>, <<20061>>, <<97, 19968>>, <<13312, 40880>> }

HlVocabLists == UNION {[1 .. n -> HlWords] : n \in 0 .. MaxVocab}

\* kanjiRegex.test(char) with kanjiRegex = /[\u4E00-\u9FAF]/
HighlightKanjiRegex(char) == char \in CJK_FIRST .. CJK_LAST

\* word.includes(str): str occurs in word as a run of consecutive units
Includes(word, str) ==
  \E start \in 1 .. Len(word) - Len(str) + 1 :
    SubSeq(word, start, start + Len(str) - 1) = str

\* A vocabulary test that knows no character.
IsKnownNever(list, char) == FALSE

\* vocabList.some(word => word.includes(char))
IsKnown(list, char) ==
  \E w \in 1 .. Len(list) : Includes(list[w], <<char>>)

\* <span key=normal-..>{currentSegment}</span>
NormalSegment(str) == [text |-> str, highlighted |-> FALSE]

\* <KanjiWithTooltip key=bold-.. char={char} info={info} />: the bold span
\* holds char; the tooltip next to it is presentation
BoldSegment(char) == [text |-> <<char>>, highlighted |-> TRUE]

\* A flush that loses the accumulated text.
PushNormalDropsBuffer(segs, currentSegment) == segs

\* if (currentSegment) segments.push(<span ...>{currentSegment}</span>)
PushNormal(segs, currentSegment) ==
  IF currentSegment # <<>>
    THEN Append(segs, NormalSegment(currentSegment))
    ELSE segs

\* The locals of the scan before the loop.
ScanStart == [segments |-> <<>>, currentSegment |-> <<>>, seenKanji |-> {}]

\* A loop body that does not record the character it has bolded.
HighlightCharForgetsSeen(st, char, list) ==
  IF HighlightKanjiRegex(char) /\ ~IsKnown(list, char)
    THEN [ segments |->
             Append(PushNormal(st.segments, st.currentSegment),
                    BoldSegment(char)),
           currentSegment |-> <<>>,
           seenKanji |-> st.seenKanji ]
    ELSE [st EXCEPT !.currentSegment = Append(@, char)]

\* The body of the loop for one character.
HighlightChar(st, char, list) ==
  IF HighlightKanjiRegex(char)
    THEN LET isKnown == IsKnown(list, char)
             shouldBold == ~isKnown /\ char \notin st.seenKanji
         IN  IF shouldBold
               THEN [ segments |->
                        Append(PushNormal(st.segments, st.currentSegment),
                               BoldSegment(char)),
                      currentSegment |-> <<>>,
                      seenKanji |-> st.seenKanji \cup {char} ]
               ELSE [st EXCEPT !.currentSegment = Append(@, char)]
    ELSE [st EXCEPT !.currentSegment = Append(@, char)]

\* for (let i = 0; i < text.length; i++), from the i-th unit on
RECURSIVE HighlightLoop(_, _, _, _)
HighlightLoop(st, str, i, list) ==
  IF i > Len(str)
    THEN st
    ELSE HighlightLoop(HighlightChar(st, str[i], list), str, i + 1, list)

\* highlightText(text) with the component's vocabList: null for the empty
\* text, otherwise the element whose children are the segments
highlightText(str, list) ==
  IF str = <<>>
    THEN [null |-> TRUE, segments |-> <<>>]
    ELSE LET st == HighlightLoop(ScanStart, str, 1, list)
         IN  [ null |-> FALSE,
               segments |-> PushNormal(st.segments, st.currentSegment) ]

\* An extraction that keeps every occurrence of a kanji.
extractUnknownKanjiKeepsRepeats(str, list) ==
  LET Unknown(char) == ~IsKnown(list, char)
  IN  SelectSeq(SelectSeq(str, HighlightKanjiRegex), Unknown)

\* extractUnknownKanji(text) with the component's vocabList:
\* text.match(kanjiRegex) || [], Array.from(new Set(allKanji)), and the
\* filter that drops the known characters; [] for the empty text
extractUnknownKanji(str, list) ==
  LET Unknown(char) == ~IsKnown(list, char)
  IN  SelectSeq(NewSet(SelectSeq(str, HighlightKanjiRegex)), Unknown)

\* No text is being rendered.
HlIdle ==
  /\ text = <<>>
  /\ vocabList = <<>>
  /\ hlPc = "idle"
  /\ segments = <<>>

HlInit ==
  \E str \in Texts, list \in HlVocabLists :
    /\ text = str
    /\ vocabList = list
    /\ hlPc = "input"
    /\ segments = <<>>

\* The page renders highlightText(generatedContent).
Highlight ==
  /\ hlPc = "input"
  /\ LET element == highlightText(text, vocabList)
     IN  /\ hlPc' = IF element.null THEN "null" ELSE "rendered"
         /\ segments' = element.segments
  /\ UNCHANGED <<text, vocabList, notHlVars>>

HlNext == Highlight

-----------------------------------------------------------------------------
(* The enrichment handler: one lookup per character, joined by Promise.all *)

\* The characters of a request: U+4E5D, U+4E8C, and the lone surrogate
\* U+D800, which encodeURIComponent rejects.
EnrichChars == {20061, 20108, 55296}

\* The request bodies: one that request.json() rejects, one without kanji,
\* one whose kanji is a string, and the arrays of characters.
EnrichRequests ==
  { [kind |-> k, kanji |-> <<>>] : k \in {"malformed", "no kanji", "string"} }
    \cup
  { [kind |-> "array", kanji |-> a] :
      a \in UNION {[1 .. n -> EnrichChars] : n \in 0 .. MaxChars} }

\* A candidate of a lookup result.  sensesKind is "absent" (undefined),
\* "malformed" (not an array) or "array", and senses is then the list of the
\* senses' english_definitions; japanese, when the candidate has it, is the
\* list of the forms' readings, "" for a form without reading.
Candidate(kind, senses, hasJapanese, japanese) ==
  [ sensesKind |-> kind, senses |-> senses,
    hasJapanese |-> hasJapanese, japanese |-> japanese ]

LongCandidate ==
  Candidate("array", << <<"d1", "d2">>, <<"d3", "d4">> >>,
            TRUE, <<"r1", "", "r2", "r3">>)
ShortCandidate == Candidate("array", << <<"d5">> >>, TRUE, <<"r4">>)
EmptyCandidate == Candidate("array", << <<>> >>, TRUE, <<"">>)
BareCandidate == Candidate("absent", <<>>, FALSE, <<>>)
MalformedCandidate == Candidate("malformed", <<>>, TRUE, <<"r1">>)

Candidates ==
  { LongCandidate, ShortCandidate, EmptyCandidate, BareCandidate,
    MalformedCandidate }

\* The candidate lists of a lookup result: every list of one candidate, and
\* the lists of two that end with the long one.
CandidateLists ==
  { <<c>> : c \in Candidates }
    \cup
  { <<c, LongCandidate>> : c \in {BareCandidate, ShortCandidate} }

\* What one lookup can end in: fetch rejects; a response that is not ok; an
\* ok response whose body is no JSON; one whose JSON has no data, an empty
\* data, or a list of candidates.
LookupThrows ==
  [kind |-> "throw", status |-> 0, json |-> FALSE, hasData |-> FALSE,
   data |-> <<>>]

LookupOutcomes ==
  {LookupThrows}
    \cup
  { [kind |-> "resp", status |-> st, json |-> FALSE, hasData |-> FALSE,
     data |-> <<>>] : st \in {200, 404, 500} }
    \cup
  { [kind |-> "resp", status |-> 200, json |-> TRUE, hasData |-> FALSE,
     data |-> <<>>] }
    \cup
  { [kind |-> "resp", status |-> 200, json |-> TRUE, hasData |-> TRUE,
     data |-> d] : d \in {<<>>} \cup CandidateLists }

NoLookup ==
  [kind |-> "none", status |-> 0, json |-> FALSE, hasData |-> FALSE,
   data |-> <<>>]

\* encodeURIComponent(char) throws a URIError: char is a lone surrogate
EncodeThrows(char) == char \in 55296 .. 57343

\* The fixed strings of the handler.
DefinitionNotAvailable == "Definition not available"
ReadingNotAvailable == "Reading not available"
ErrorLoadingDefinition == "Error loading definition"
ErrorLoadingReading == "Error loading reading"

NotAvailableEntry(char) ==
  [ character |-> char,
    meanings |-> <<DefinitionNotAvailable>>,
    readings |-> <<ReadingNotAvailable>> ]

ErrorEntry(char) ==
  [ character |-> char,
    meanings |-> <<ErrorLoadingDefinition>>,
    readings |-> <<ErrorLoadingReading>> ]

NoEntry == [character |-> -1, meanings |-> <<>>, readings |-> <<>>]

\* .slice(0, n)
Slice(seq, n) == SubSeq(seq, 1, IF Len(seq) < n THEN Len(seq) ELSE n)

\* senses.flatMap(sense => sense.english_definitions || [])
RECURSIVE FlatMapDefinitions(_)
FlatMapDefinitions(senses) ==
  IF senses = <<>>
    THEN <<>>
    ELSE Head(senses) \o FlatMapDefinitions(Tail(senses))

\* Meanings taken without .slice(0, 3).
MeaningsUnsliced(firstResult) ==
  IF firstResult.sensesKind = "absent"
    THEN <<DefinitionNotAvailable>>
    ELSE FlatMapDefinitions(firstResult.senses)

\* firstResult.senses?.flatMap(...).slice(0, 3) || ['Definition not available']
Meanings(firstResult) ==
  IF firstResult.sensesKind = "absent"
    THEN <<DefinitionNotAvailable>>
    ELSE Slice(FlatMapDefinitions(firstResult.senses), 3)

\* firstResult.japanese?.filter(j => j.reading).map(j => j.reading)
\*   .slice(0, 2) || []
KunReadings(firstResult) ==
  IF ~firstResult.hasJapanese
    THEN <<>>
    ELSE Slice(SelectSeq(firstResult.japanese, LAMBDA r : r # ""), 2)

\* The entry built from the first result.
FirstResultEntry(char, firstResult) ==
  LET meanings == Meanings(firstResult)
      kunReadings == KunReadings(firstResult)
      readings == IF Len(kunReadings) = 0
                    THEN <<ReadingNotAvailable>>
                    ELSE kunReadings
  IN  [ character |-> char,
        meanings |-> IF Len(meanings) > 0
                       THEN meanings
                       ELSE <<DefinitionNotAvailable>>,
        readings |-> IF Len(readings) > 0
                       THEN readings
                       ELSE <<ReadingNotAvailable>> ]

\* How the try block of the callback ends: it returns an entry or an
\* exception leaves it.
Fulfilled(entry) == [rejected |-> FALSE, value |-> entry]
Rejected == [rejected |-> TRUE, value |-> NoEntry]

\* The try block of the callback for char, its lookup ending in o.
LookupTry(char, o) ==
  IF EncodeThrows(char) \/ o.kind = "throw"
    THEN Rejected
  ELSE IF ~(o.status >= 200 /\ o.status <= 299)
    THEN Fulfilled(NotAvailableEntry(char))
  ELSE IF ~o.json
    THEN Rejected
  ELSE IF o.hasData /\ Len(o.data) > 0
    THEN IF o.data[1].sensesKind = "malformed"
           THEN Rejected
           ELSE Fulfilled(FirstResultEntry(char, o.data[1]))
  ELSE Fulfilled(NotAvailableEntry(char))

\* A callback without its catch block.
LookupCallbackNoCatch(char, o) == LookupTry(char, o)

\* The callback of kanji.map: the try block, and the catch block that turns
\* every exception into the error entry.
LookupCallback(char, o) ==
  IF LookupTry(char, o).rejected
    THEN Fulfilled(ErrorEntry(char))
    ELSE LookupTry(char, o)

\* A join that collects the values in the order the promises settle.
PromiseAllFulfilInOrderOfSettling(vals, i, v) ==
  LET free == {k \in 1 .. Len(vals) : vals[k] = NoEntry}
      first == CHOOSE k \in free : \A j \in free : k <= j
  IN  [vals EXCEPT ![first] = v]

\* Promise.all: the value of the i-th promise becomes the i-th value.
PromiseAllFulfil(vals, i, v) == [vals EXCEPT ![i] = v]

NoEnrichResponse == [status |-> 0, error |-> "none", kanjiInfo |-> <<>>]

EnrichError(err, st) == [status |-> st, error |-> err, kanjiInfo |-> <<>>]

\* NextResponse.json({ kanjiInfo })
EnrichOk(infos) == [status |-> 200, error |-> "none", kanjiInfo |-> infos]

\* The handler is not running.
EnrichIdle ==
  /\ enrichRequest = [kind |-> "none", kanji |-> <<>>]
  /\ enrichPc = "idle"
  /\ pending = {}
  /\ lookups = <<>>
  /\ completed = <<>>
  /\ values = <<>>
  /\ enrichResponse = NoEnrichResponse

EnrichInit ==
  \E req \in EnrichRequests :
    /\ enrichRequest = req
    /\ enrichPc = "start"
    /\ pending = {}
    /\ lookups = <<>>
    /\ completed = <<>>
    /\ values = <<>>
    /\ enrichResponse = NoEnrichResponse

\* The values and the response once the promise of some position has
\* settled as s: a rejection rejects Promise.all and the outer catch answers
\* 500; the last fulfilment fulfils Promise.all and the handler answers.
Joined(vals, left, i, s) ==
  IF s.rejected
    THEN [vals |-> vals, pc |-> "responded",
          response |-> EnrichError("Internal server error", 500)]
  ELSE IF left = {}
    THEN [vals |-> PromiseAllFulfil(vals, i, s.value), pc |-> "responded",
          response |-> EnrichOk(PromiseAllFulfil(vals, i, s.value))]
  ELSE [vals |-> PromiseAllFulfil(vals, i, s.value), pc |-> "waiting",
        response |-> NoEnrichResponse]

\* The handler up to its await of Promise.all: it reads the body, checks
\* kanji, and starts every callback; a callback whose character cannot be
\* encoded ends before it has fetched anything.
EnrichStart ==
  /\ enrichPc = "start"
  /\ UNCHANGED <<enrichRequest, completed, notEnrichVars>>
  /\ IF enrichRequest.kind = "malformed"
       THEN /\ enrichResponse' = EnrichError("Internal server error", 500)
            /\ enrichPc' = "responded"
            /\ UNCHANGED <<pending, lookups, values>>
     ELSE IF enrichRequest.kind # "array"
       THEN /\ enrichResponse' = EnrichError("Kanji array is required", 400)
            /\ enrichPc' = "responded"
            /\ UNCHANGED <<pending, lookups, values>>
     ELSE LET kanji == enrichRequest.kanji
              n == Len(kanji)
              sync == {i \in 1 .. n : EncodeThrows(kanji[i])}
              vals == [i \in 1 .. n |->
                         IF i \in sync
                           THEN LookupCallback(kanji[i], NoLookup).value
                           ELSE NoEntry]
          IN  /\ lookups' = [i \in 1 .. n |-> NoLookup]
              /\ pending' = (1 .. n) \ sync
              /\ values' = vals
              /\ IF pending' = {}
                   THEN /\ enrichPc' = "responded"
                        /\ enrichResponse' = EnrichOk(vals)
                   ELSE /\ enrichPc' = "waiting"
                        /\ enrichResponse' = NoEnrichResponse

\* The lookup of position i ends in o and its callback runs to its end.
LookupCompletes(i, o) ==
  /\ enrichPc = "waiting"
  /\ i \in pending
  /\ pending' = pending \ {i}
  /\ lookups' = [lookups EXCEPT ![i] = o]
  /\ completed' = Append(completed, i)
  /\ LET j == Joined(values, pending', i,
                     LookupCallback(enrichRequest.kanji[i], o))
     IN  /\ values' = j.vals
         /\ enrichPc' = j.pc
         /\ enrichResponse' = j.response
  /\ UNCHANGED <<enrichRequest, notEnrichVars>>

EnrichNext ==
  \/ EnrichStart
  \/ \E i \in 1 .. MaxChars + 1, o \in LookupOutcomes : LookupCompletes(i, o)

-----------------------------------------------------------------------------
(* Model texts and the reasoning-trace stripping                           *)

\* A model text is a sequence of tokens, each a character or a stretch of
\* characters: the opening delimiter in lower or upper case ("open" <think>,
\* "OPEN" <THINK>), the closing delimiter ("close" </think>), a blank
\* ("space"), a line break ("newline"), a word without the letter n
\* ("word"), the letters x and n, the letters ull, the digit 5, the
\* double quote ("quote"), the backslash, the punctuation { } : and , of
\* JSON, three backticks ("fence"), the words json, japanese and english,
\* and the two parts "<thi" and "nk>" of an opening delimiter, which make
\* one where they stand side by side.
Tok(kind) == [tok |-> kind]

\* \s
IsSpace(t) == t.tok \in {"space", "newline"}

\* the i flag: <think> matches in any letter case
IsOpen(t) == t.tok \in {"open", "OPEN"}
IsClose(t) == t.tok \in {"close", "CLOSE"}

\* .trim(): white space leaves both ends
RECURSIVE TrimStart(_)
TrimStart(str) ==
  IF str # <<>> /\ IsSpace(Head(str)) THEN TrimStart(Tail(str)) ELSE str

RECURSIVE TrimEnd(_)
TrimEnd(str) ==
  IF str # <<>> /\ IsSpace(str[Len(str)])
    THEN TrimEnd(SubSeq(str, 1, Len(str) - 1))
    ELSE str

Trim(str) == TrimEnd(TrimStart(str))

\* An opening delimiter begins at position i of str, as one token or as its
\* two parts side by side; the position it ends at.
OpenAt(str, i) ==
  \/ IsOpen(str[i])
  \/ str[i].tok = "<thi" /\ i < Len(str) /\ str[i + 1].tok = "nk>"
OpenEnd(str, i) == IF IsOpen(str[i]) THEN i ELSE i + 1

\* Positions of the opening delimiters of str, and of the closing ones
\* after position i.
Opens(str) == {i \in 1 .. Len(str) : OpenAt(str, i)}
ClosesAfter(str, i) == {j \in i + 1 .. Len(str) : IsClose(str[j])}

Least(set) == CHOOSE i \in set : \A j \in set : i <= j

\* .replace(/<think>[\s\S]*?<\/think>/gi, ''): from left to right, each
\* opening delimiter up to the nearest closing one after it
RECURSIVE StripPaired(_)
StripPaired(str) ==
  IF Opens(str) = {}
       \/ ClosesAfter(str, OpenEnd(str, Least(Opens(str)))) = {}
    THEN str
    ELSE LET i == Least(Opens(str))
             j == Least(ClosesAfter(str, OpenEnd(str, i)))
         IN  SubSeq(str, 1, i - 1) \o StripPaired(SubSeq(str, j + 1, Len(str)))

\* .replace(/<think>[\s\S]*/gi, ''): the first opening delimiter and
\* everything after it
StripUnclosed(str) ==
  IF Opens(str) = {} THEN str ELSE SubSeq(str, 1, Least(Opens(str)) - 1)

\* A stripping that removes the paired blocks only.
StripThinkPairedOnly(str) == Trim(StripPaired(str))

\* The two replacements, each followed by .trim()
StripThink(str) == Trim(StripUnclosed(Trim(StripPaired(str))))

-----------------------------------------------------------------------------
(* The generate handler                                                    *)

\* text.slice(0, 10000)
TEXT_CEILING == 10000

\* The value of sourceContent: a model text, or the first len characters of
\* the caller's text.
ModelText(str) == [kind |-> "model", tokens |-> str, len |-> 0]
CallerText(n) == [kind |-> "caller", tokens |-> <<>>, len |-> n]

\* let sourceContent = ''
EmptySource == ModelText(<<>>)

\* The lengths of the caller's text ('' has length 0).
TextLengths == {0, 1, 9999, 10000, 10001, 25000}

\* The request bodies: one that request.json() rejects, and the bodies with
\* inputMode missing (the default 'topic' applies), one of the three modes
\* or another string; field tells whether the field of the mode (topic, url,
\* text) is missing, given or, for text, a number; vocabList is missing,
\* empty or given.
MalformedGenRequest ==
  [body |-> "malformed", inputMode |-> "absent", field |-> "absent",
   textLen |-> 0, vocabList |-> "absent"]

GenRequests ==
  {MalformedGenRequest}
    \cup
  [body : {"json"}, inputMode : {"absent", "topic", "url", "other"},
   field : {"absent", "given"}, textLen : {0},
   vocabList : {"absent", "empty", "given"}]
    \cup
  [body : {"json"}, inputMode : {"text"}, field : {"given"},
   textLen : TextLengths, vocabList : {"absent", "empty", "given"}]
    \cup
  [body : {"json"}, inputMode : {"text"}, field : {"absent", "number"},
   textLen : {0}, vocabList : {"given"}]

\* const { inputMode = 'topic', ... }
ModeOf(req) == IF req.inputMode = "absent" THEN "topic" ELSE req.inputMode

\* A validation that misses no field.
FieldNeverMissing(req) == FALSE

\* !topic, !url, !text: the field is missing or the empty string
FieldMissing(req) ==
  \/ req.field = "absent"
  \/ req.inputMode = "text" /\ req.field = "given" /\ req.textLen = 0

\* The model texts an acquisition call may answer with: nothing, a summary,
\* a reasoning trace only, an unterminated trace, a trace followed by a
\* summary, white space only.
AcquisitionTexts ==
  { <<>>,
    <<Tok("word")>>,
    <<Tok("open"), Tok("word"), Tok("close")>>,
    <<Tok("OPEN"), Tok("word")>>,
    <<Tok("open"), Tok("word"), Tok("close"), Tok("space"), Tok("word")>>,
    <<Tok("space")>> }

\* What a chat-completion request issued with fetch can end in: fetch
\* rejects; a status that is no success, whose body can be read or not; a
\* success whose body is no JSON; a JSON without choices; a JSON whose first
\* choice has the content named.
ChatOutcome(kind, status, read, choices, content) ==
  [kind |-> kind, status |-> status, read |-> read, choices |-> choices,
   content |-> content]

NoChatOutcome == ChatOutcome("none", 0, "ok", FALSE, <<>>)

ChatOutcomes ==
  {ChatOutcome("throw", 0, "ok", FALSE, <<>>)}
    \cup
  {ChatOutcome("resp", st, rd, FALSE, <<>>) :
     st \in {304, 429, 500, 503}, rd \in {"ok", "abort"}}
    \cup
  {ChatOutcome("resp", 200, "badjson", FALSE, <<>>),
   ChatOutcome("resp", 200, "ok", FALSE, <<>>)}
    \cup
  {ChatOutcome("resp", 200, "ok", TRUE, c) : c \in AcquisitionTexts}

\* What the GET of the page can end in.
PageFetchOutcomes ==
  {[kind |-> "throw", status |-> 0, read |-> "ok"],
   [kind |-> "resp", status |-> 200, read |-> "ok"],
   [kind |-> "resp", status |-> 200, read |-> "abort"],
   [kind |-> "resp", status |-> 404, read |-> "ok"]}

\* The values of JavaScript the extraction deals with: a string, a number
\* other than 0, null and undefined.
Str(s) == [type |-> "string", str |-> s]
Number == [type |-> "number", str |-> <<>>]
Null == [type |-> "null", str |-> <<>>]
Undefined == [type |-> "undefined", str |-> <<>>]

\* if (v), v || ...: the empty string, null and undefined are false
Truthy(v) == v.type = "number" \/ (v.type = "string" /\ v.str # <<>>)
IsString(v) == v.type = "string"

\* The text of a sequence of token names.
Text(names) == [i \in 1 .. Len(names) |-> Tok(names[i])]

\* \s*: the first position from i on that holds no white space
SkipSpace(s, i) ==
  CHOOSE j \in i .. Len(s) + 1 :
    /\ \A k \in i .. j - 1 : IsSpace(s[k])
    /\ j = Len(s) + 1 \/ ~IsSpace(s[j])

\* s holds a token of the kind named at position i.
At(s, i, kind) == i >= 1 /\ i <= Len(s) /\ s[i].tok = kind

\* The position behind an optional token of the kind named at position i.
Opt(s, i, kind) == IF At(s, i, kind) THEN i + 1 ELSE i

\* JSON.parse of a string literal, a number, null, and of an object whose
\* members have such values.  A step of the parser ends in the position
\* behind what it read and the value read, or fails.
JsonFail == [ok |-> FALSE, pos |-> 0, val |-> Undefined]
JsonOk(pos, val) == [ok |-> TRUE, pos |-> pos, val |-> val]

\* The characters of a string literal from position i, behind its opening
\* quote, on: \" \\ and \n are the escapes of the texts modelled here, any
\* other character behind a backslash and a raw line break are syntax errors.
RECURSIVE JsonString(_, _, _)
JsonString(s, i, acc) ==
  IF i > Len(s) THEN JsonFail
  ELSE IF s[i].tok = "quote" THEN JsonOk(i + 1, Str(acc))
  ELSE IF s[i].tok = "backslash" THEN
    IF At(s, i + 1, "quote")
      THEN JsonString(s, i + 2, Append(acc, Tok("quote")))
    ELSE IF At(s, i + 1, "backslash")
      THEN JsonString(s, i + 2, Append(acc, Tok("backslash")))
    ELSE IF At(s, i + 1, "n")
      THEN JsonString(s, i + 2, Append(acc, Tok("newline")))
    ELSE JsonFail
  ELSE IF s[i].tok = "newline" THEN JsonFail
  ELSE JsonString(s, i + 1, Append(acc, s[i]))

\* The position behind the digits that start at position i.
RECURSIVE SkipDigits(_, _)
SkipDigits(s, i) == IF At(s, i, "5") THEN SkipDigits(s, i + 1) ELSE i

JsonScalar(s, i) ==
  IF At(s, i, "quote") THEN JsonString(s, i + 1, <<>>)
  ELSE IF At(s, i, "5") THEN JsonOk(SkipDigits(s, i), Number)
  ELSE IF At(s, i, "n") /\ At(s, i + 1, "ull") THEN JsonOk(i + 2, Null)
  ELSE JsonFail

\* What JSON.parse returns or that it throws: of an object the values of its
\* members japanese and english (undefined when it has none; the last one
\* when a key is repeated), of any other value its type.
ParseError ==
  [ok |-> FALSE, pos |-> 0, type |-> "none", japanese |-> Undefined,
   english |-> Undefined]
Parsed(pos, type, jp, en) ==
  [ok |-> TRUE, pos |-> pos, type |-> type, japanese |-> jp, english |-> en]

\* The members of an object from position i, the start of a member, on: the
\* key, the colon, the value, and a closing brace or a comma behind it.
RECURSIVE JsonMembers(_, _, _, _)
JsonMembers(s, i, jp, en) ==
  LET End(next, jp2, en2) ==
        IF At(s, next, "}") THEN Parsed(next + 1, "object", jp2, en2)
        ELSE IF At(s, next, ",")
          THEN JsonMembers(s, SkipSpace(s, next + 1), jp2, en2)
        ELSE ParseError
      Value(name, v) ==
        IF ~v.ok THEN ParseError
        ELSE End(SkipSpace(s, v.pos),
                 IF name = Text(<<"japanese">>) THEN v.val ELSE jp,
                 IF name = Text(<<"english">>) THEN v.val ELSE en)
      Colon(name, colon) ==
        IF ~At(s, colon, ":") THEN ParseError
        ELSE Value(name, JsonScalar(s, SkipSpace(s, colon + 1)))
      Key(key) ==
        IF ~key.ok THEN ParseError
        ELSE Colon(key.val.str, SkipSpace(s, key.pos))
  IN  IF At(s, i, "quote") THEN Key(JsonString(s, i + 1, <<>>))
                           ELSE ParseError

JsonValue(s, i) ==
  LET Object(first) ==
        IF At(s, first, "}")
          THEN Parsed(first + 1, "object", Undefined, Undefined)
          ELSE JsonMembers(s, first, Undefined, Undefined)
      Scalar(v) ==
        IF v.ok THEN Parsed(v.pos, v.val.type, Undefined, Undefined)
                ELSE ParseError
  IN  IF At(s, i, "{") THEN Object(SkipSpace(s, i + 1))
                       ELSE Scalar(JsonScalar(s, i))

\* JSON.parse(s)
JsonParse(s) ==
  LET Whole(v) ==
        IF v.ok /\ SkipSpace(s, v.pos) = Len(s) + 1 THEN v ELSE ParseError
  IN  Whole(JsonValue(s, SkipSpace(s, 1)))

\* What a strategy of the extraction ends in: a pair, nothing, or an
\* exception.
Found(jp, en) == [found |-> TRUE, threw |-> FALSE, japanese |-> jp, english |-> en]
NotFound ==
  [found |-> FALSE, threw |-> FALSE, japanese |-> Undefined, english |-> Undefined]
Threw ==
  [found |-> FALSE, threw |-> TRUE, japanese |-> Undefined, english |-> Undefined]

\* const parsed = JSON.parse(str); if (parsed.japanese) return { japanese:
\* parsed.japanese, english: parsed.english || '' }.  JSON.parse throws on a
\* text that is no JSON, and reading a property of null throws.
ParseStrategy(str) ==
  LET Result(parsed) ==
        IF ~parsed.ok \/ parsed.type = "null" THEN Threw
        ELSE IF Truthy(parsed.japanese)
          THEN Found(parsed.japanese,
                     IF Truthy(parsed.english) THEN parsed.english
                                               ELSE Str(<<>>))
        ELSE NotFound
  IN  Result(JsonParse(str))

\* content.match(/```(?:json)?\s*([\s\S]*?)\s*```/): the first fence, the
\* word json when it follows at once, and the text up to the next fence
\* without the white space at its ends.
NoMatch == [matched |-> FALSE, group |-> <<>>]
Match(group) == [matched |-> TRUE, group |-> group]

Fences(content) == {i \in 1 .. Len(content) : content[i].tok = "fence"}

CodeBlockMatch(content) ==
  LET Between(first, fences) ==
        Match(TrimEnd(SubSeq(content,
                             SkipSpace(content, Opt(content, first + 1, "json")),
                             Least(fences \ {first}) - 1)))
      Block(fences) ==
        IF Cardinality(fences) < 2 THEN NoMatch
                                   ELSE Between(Least(fences), fences)
  IN  Block(Fences(content))

\* Strategy 1 and strategy 2 share one try block.
FencedStrategy(content) ==
  LET Result(codeBlockMatch) ==
        IF codeBlockMatch.matched THEN ParseStrategy(codeBlockMatch.group)
                                  ELSE NotFound
  IN  Result(CodeBlockMatch(content))

WholeStrategy(content) == ParseStrategy(content)

\* "key"\s*:\s*" starts at position i: the position of the value behind it,
\* 0 when it does not start there
ValueStart(s, i, key) ==
  LET Quote(q) == IF At(s, q, "quote") THEN q + 1 ELSE 0
      Colon(c) == IF At(s, c, ":") THEN Quote(SkipSpace(s, c + 1)) ELSE 0
  IN  IF At(s, i, "quote") /\ At(s, i + 1, key) /\ At(s, i + 2, "quote")
        THEN Colon(SkipSpace(s, i + 3))
        ELSE 0

KeyAt(s, i, key) == ValueStart(s, i, key) # 0

\* ((?:[^"\\]|\\[\s\S])*)" from position j on: the position of the first
\* quote that no backslash escapes, 0 when there is none
RECURSIVE ClosingQuote(_, _)
ClosingQuote(s, j) ==
  IF j > Len(s) THEN 0
  ELSE IF s[j].tok = "quote" THEN j
  ELSE IF s[j].tok = "backslash"
    THEN IF j + 1 > Len(s) THEN 0 ELSE ClosingQuote(s, j + 2)
  ELSE ClosingQuote(s, j + 1)

\* The position of the quote that ends the string of key that starts at
\* position i, 0 when no key or no terminated string starts there.
StringEnd(s, i, key) ==
  LET End(v) == IF v = 0 THEN 0 ELSE ClosingQuote(s, v)
  IN  End(ValueStart(s, i, key))

\* content.match(/"key"\s*:\s*"((?:[^"\\]|\\[\s\S])*)"/): the leftmost
\* place where the key is followed by a terminated string
QuotedMatch(content, key) ==
  LET At1(i) ==
        Match(SubSeq(content, ValueStart(content, i, key),
                     StringEnd(content, i, key) - 1))
      Leftmost(starts) == IF starts = {} THEN NoMatch ELSE At1(Least(starts))
  IN  Leftmost({i \in 1 .. Len(content) : StringEnd(content, i, key) # 0})

\* .replace(/ab/g, r) for the two characters a b: from left to right
RECURSIVE ReplacePair(_, _, _, _)
ReplacePair(s, a, b, r) ==
  IF Len(s) < 2 THEN s
  ELSE IF s[1].tok = a /\ s[2].tok = b
    THEN <<Tok(r)>> \o ReplacePair(SubSeq(s, 3, Len(s)), a, b, r)
    ELSE <<s[1]>> \o ReplacePair(Tail(s), a, b, r)

\* .replace(/\\n/g, '\n').replace(/\\"/g, '"').replace(/\\\\/g, '\\')
Unescape(s) ==
  ReplacePair(ReplacePair(ReplacePair(s, "backslash", "n", "newline"),
                          "backslash", "quote", "quote"),
              "backslash", "backslash", "backslash")

\* Strategy 3: the quoted pair.
QuotedStrategy(content) ==
  LET English(englishMatch) ==
        IF englishMatch.matched THEN Str(Unescape(englishMatch.group))
                                ELSE Str(<<>>)
      Result(japaneseMatch) ==
        IF japaneseMatch.matched
          THEN Found(Str(Unescape(japaneseMatch.group)),
                     English(QuotedMatch(content, "english")))
          ELSE NotFound
  IN  Result(QuotedMatch(content, "japanese"))

\* A truncation fallback whose group takes no character.
TruncatedMatchTakesNothing(content) ==
  IF \E i \in 1 .. Len(content) : KeyAt(content, i, "japanese")
    THEN Match(<<>>)
    ELSE NoMatch

\* content.match(/"japanese"\s*:\s*"([^"]*)/): the leftmost key with an
\* opening quote, and the text behind it up to the next quote or the end
TruncatedMatch(content) ==
  LET UpTo(v, quotes) ==
        Match(SubSeq(content, v,
                     IF quotes = {} THEN Len(content) ELSE Least(quotes) - 1))
      From(v) ==
        UpTo(v, {j \in v .. Len(content) : content[j].tok = "quote"})
      Leftmost(starts) ==
        IF starts = {} THEN NoMatch
        ELSE From(ValueStart(content, Least(starts), "japanese"))
  IN  Leftmost({i \in 1 .. Len(content) : KeyAt(content, i, "japanese")})

\* Strategy 4: the truncation fallback.
TruncatedStrategy(content) ==
  LET Result(truncatedMatch) ==
        IF truncatedMatch.matched
          THEN Found(Str(truncatedMatch.group), Str(<<>>))
          ELSE NotFound
  IN  Result(TruncatedMatch(content))

\* The try block of extractFields, given what the fenced block and the
\* whole content end in: an exception of the fenced block ends it, so that
\* the parse of the whole content is not reached.
TryParses(fenced, whole) ==
  IF fenced.found THEN fenced
  ELSE IF fenced.threw THEN Threw
  ELSE whole

\* An extraction without the catch: an exception of a parse leaves it.
extractFieldsUncaught(content) ==
  LET After(tried) ==
        IF tried.found \/ tried.threw THEN tried
        ELSE LET Regex(quoted) ==
                   IF quoted.found THEN quoted ELSE TruncatedStrategy(content)
             IN  Regex(QuotedStrategy(content))
  IN  After(TryParses(FencedStrategy(content), WholeStrategy(content)))

\* extractFields(content): the try block, and the two regex strategies
\* behind its catch.
extractFields(content) ==
  LET After(tried) ==
        IF tried.found THEN tried
        ELSE LET Regex(quoted) ==
                   IF quoted.found THEN quoted ELSE TruncatedStrategy(content)
             IN  Regex(QuotedStrategy(content))
  IN  After(TryParses(FencedStrategy(content), WholeStrategy(content)))

\* .replace(/^\s*\{\s*["']?japanese["']?\s*:\s*["']?/i, ''): the position
\* behind the match at the start of s, 1 when there is none.  The texts
\* modelled here hold no apostrophe and the key in lower case only.
ArtifactPrefixEnd(s) ==
  LET Colon(colon) ==
        IF At(s, colon, ":") THEN Opt(s, SkipSpace(s, colon + 1), "quote")
                             ELSE 1
      Key(key) ==
        IF At(s, key, "japanese")
          THEN Colon(SkipSpace(s, Opt(s, key + 1, "quote")))
          ELSE 1
      Brace(brace) ==
        IF At(s, brace, "{")
          THEN Key(Opt(s, SkipSpace(s, brace + 1), "quote"))
          ELSE 1
  IN  Brace(SkipSpace(s, 1))

\* ["']?\s*,\s*["']?english["']?\s*:  matches at position p
EnglishTailAt(s, p) ==
  LET Key(key) ==
        At(s, key, "english")
          /\ At(s, SkipSpace(s, Opt(s, key + 1, "quote")), ":")
      Comma(comma) ==
        At(s, comma, ",") /\ Key(Opt(s, SkipSpace(s, comma + 1), "quote"))
  IN  Comma(SkipSpace(s, Opt(s, p, "quote")))

\* ["']?\s*\}\s*$ matches at position p
ClosingBraceAt(s, p) ==
  LET brace == SkipSpace(s, Opt(s, p, "quote"))
  IN  At(s, brace, "}") /\ SkipSpace(s, brace + 1) = Len(s) + 1

\* .replace(/["']?\s*,\s*["']?english["']?\s*:\s*["']?[\s\S]*$/i, ''): s
\* up to the leftmost match
CutEnglishTail(s) ==
  LET places == {p \in 1 .. Len(s) : EnglishTailAt(s, p)}
  IN  IF places = {} THEN s ELSE SubSeq(s, 1, Least(places) - 1)

\* .replace(/["']?\s*\}\s*$/i, '')
CutClosingBrace(s) ==
  LET places == {p \in 1 .. Len(s) : ClosingBraceAt(s, p)}
  IN  IF places = {} THEN s ELSE SubSeq(s, 1, Least(places) - 1)

\* cleanJsonArtifacts(content)
cleanJsonArtifacts(content) ==
  Trim(CutClosingBrace(CutEnglishTail(
         SubSeq(content, ArtifactPrefixEnd(content), Len(content)))))

\* const english = extracted.english || 'Translation not available'
TranslationNotAvailable == Str(Text(<<"Translation not available">>))

\* A last resort that leaves english empty.
PairFromNoPlaceholder(extracted, rawContent) ==
  IF extracted.found
    THEN [japanese |-> extracted.japanese,
          english |-> IF Truthy(extracted.english)
                        THEN extracted.english
                        ELSE TranslationNotAvailable]
    ELSE [japanese |-> Str(cleanJsonArtifacts(rawContent)),
          english |-> Str(<<>>)]

\* Lines 433-441: the pair the handler takes from rawContent, extracted
\* being what extractFields returned for it.
PairFrom(extracted, rawContent) ==
  IF extracted.found
    THEN [japanese |-> extracted.japanese,
          english |-> IF Truthy(extracted.english)
                        THEN extracted.english
                        ELSE TranslationNotAvailable]
    ELSE [japanese |-> Str(cleanJsonArtifacts(rawContent)),
          english |-> TranslationNotAvailable]

ExtractedPair(rawContent) == PairFrom(extractFields(rawContent), rawContent)

\* What the upstream model writes for a string: the string literal of JSON,
\* with the quote, the backslash and the line break escaped.
RECURSIVE JsonEscape(_)
JsonEscape(v) ==
  IF v = <<>> THEN <<>>
  ELSE (CASE Head(v).tok = "quote" -> Text(<<"backslash", "quote">>)
          [] Head(v).tok = "backslash" -> Text(<<"backslash", "backslash">>)
          [] Head(v).tok = "newline" -> Text(<<"backslash", "n">>)
          [] OTHER -> <<Head(v)>>) \o JsonEscape(Tail(v))

Literal(v) == Text(<<"quote">>) \o JsonEscape(v) \o Text(<<"quote">>)

\* The member "key": value, value being the text of a JSON value.
Member(key, value) == Text(<<"quote", key, "quote", ":", "space">>) \o value

\* The three forms of a reply that carries the strings jp and en: a JSON
\* object, the same object inside a markdown fence, and the two members
\* inside a sentence.
CleanJson(jp, en) ==
  Text(<<"{">>) \o Member("japanese", jp) \o Text(<<",", "space">>)
    \o Member("english", en) \o Text(<<"}">>)

FencedJson(jp, en) ==
  Text(<<"fence", "json", "newline">>) \o CleanJson(jp, en)
    \o Text(<<"newline", "fence">>)

QuotedPair(jp, en) ==
  Text(<<"word", ":", "space">>) \o Member("japanese", jp)
    \o Text(<<",", "space">>) \o Member("english", en)

FormText(form, jp, en) ==
  CASE form = "json" -> CleanJson(jp, en)
    [] form = "fenced" -> FencedJson(jp, en)
    [] OTHER -> QuotedPair(jp, en)

\* The texts of JSON values a reply may hold.
JP == Literal(Text(<<"word">>))
EN == Literal(Text(<<"x">>))
EmptyLiteral == Literal(<<>>)
BlankLiteral == Literal(Text(<<"space">>))
NullLiteral == Text(<<"n", "ull">>)
NumberLiteral == Text(<<"5">>)

\* The model texts of a translation reply: nothing, a sentence, white
\* space, a reasoning trace alone, in front of a JSON object and
\* unterminated; JSON objects whose english or japanese is a string, the
\* empty string, white space, null, a number or missing; the object in a
\* fence; the quoted pair in a sentence; a text cut off inside the value of
\* japanese; an opening brace with the key japanese alone.
TranslationTexts ==
  { <<>>, Text(<<"word">>), Text(<<"space">>),
    Text(<<"open", "word", "close">>),
    Text(<<"open", "word", "close", "space">>) \o CleanJson(JP, EN),
    Text(<<"OPEN">>) \o CleanJson(JP, EN) }
    \cup
  {CleanJson(JP, en) : en \in {EN, EmptyLiteral, NullLiteral, NumberLiteral}}
    \cup
  {CleanJson(jp, EN) :
     jp \in {EmptyLiteral, BlankLiteral, NullLiteral, NumberLiteral}}
    \cup
  {Text(<<"{">>) \o Member("japanese", JP) \o Text(<<"}">>),
   Text(<<"{">>) \o Member("english", EN) \o Text(<<"}">>)}
    \cup
  {FencedJson(jp, EN) : jp \in {JP, EmptyLiteral, NullLiteral}}
    \cup
  {QuotedPair(JP, EN), QuotedPair(EmptyLiteral, EN),
   Text(<<"word", ":", "space">>) \o Member("japanese", JP)}
    \cup
  {Text(<<"{">>) \o Member("japanese", Text(<<"quote", "word">>)),
   Text(<<"{">>) \o Member("japanese", Text(<<"quote">>)),
   Text(<<"{", "quote", "japanese", "quote", ":">>)}

\* The JSON of a translation reply: without choices, or with the content
\* named in its first choice.
TranslationReplies ==
  {[choices |-> FALSE, content |-> <<>>]}
    \cup
  {[choices |-> TRUE, content |-> c] : c \in TranslationTexts}

NoReply == [choices |-> FALSE, content |-> <<Tok("none")>>]

\* The responses of the handler.
NoGenResponse ==
  [status |-> 0, error |-> "none", errorType |-> "none",
   japanese |-> Undefined, english |-> Undefined, sourceContent |-> EmptySource]

\* NextResponse.json({ error, errorType }, { status })
GenError(status, error, errorType) ==
  [status |-> status, error |-> error, errorType |-> errorType,
   japanese |-> Undefined, english |-> Undefined, sourceContent |-> EmptySource]

\* NextResponse.json({ japanese, english, sourceContent })
GenSuccess(jp, en, src) ==
  [status |-> 200, error |-> "none", errorType |-> "none",
   japanese |-> jp, english |-> en, sourceContent |-> src]

\* The answer of the outer catch block, and of the catch block of url mode.
InternalServerError == GenError(500, "Internal server error", "none")
UrlFetchError ==
  GenError(400, "Failed to fetch the URL. Please check the URL and try again.",
           "none")

EmptyTranslationError ==
  GenError(500, "Failed to generate Japanese content. The translation service returned an empty response. Please try again.",
           "none")

\* A response with a body cannot be built for a null-body status: the
\* constructor throws.
NullBodyStatus(status) == status \in {101, 204, 205, 304}

\* A response built inside the outer try block only, and one built inside
\* the try block of url mode.
OuterCatch(r) == IF NullBodyStatus(r.status) THEN InternalServerError ELSE r
InnerCatch(r) == IF NullBodyStatus(r.status) THEN UrlFetchError ELSE r

\* How a stage ends: with a response, or with the source text.
Answer(r) == [kind |-> "answer", response |-> r, source |-> EmptySource]
Source(src) == [kind |-> "source", response |-> NoGenResponse, source |-> src]

\* Topic mode after its fetch has ended in o.
AfterNews(o) ==
  IF o.kind = "throw" THEN Answer(InternalServerError)
  ELSE IF ~ResponseOk(o.status) THEN
    IF o.read = "abort"
      THEN Answer(InternalServerError)
      ELSE Answer(OuterCatch(GenError(o.status, "Failed to gather news",
                                      "API_ERROR")))
  ELSE IF o.read # "ok" \/ ~o.choices THEN Answer(InternalServerError)
  ELSE IF o.content = <<>>
    THEN Answer(GenError(500, "No news content retrieved", "none"))
  ELSE Source(ModelText(o.content))

\* Url mode after the GET of the page has ended in o: an answer, or the
\* extraction call is issued.
AfterPage(o) ==
  IF o.kind = "throw" THEN Answer(UrlFetchError)
  ELSE IF ~ResponseOk(o.status)
    THEN Answer(GenError(400, "Failed to fetch URL", "none"))
  ELSE IF o.read # "ok" THEN Answer(UrlFetchError)
  ELSE Source(EmptySource)

\* Url mode after the fetch of its extraction call has ended in o.
AfterExtract(o) ==
  IF o.kind = "throw" THEN Answer(UrlFetchError)
  ELSE IF ~ResponseOk(o.status) THEN
    IF o.read = "abort"
      THEN Answer(UrlFetchError)
      ELSE Answer(InnerCatch(GenError(o.status,
                                      "Failed to analyze URL content",
                                      "API_ERROR")))
  ELSE IF o.read # "ok" \/ ~o.choices THEN Answer(UrlFetchError)
  ELSE IF o.content = <<>>
    THEN Answer(GenError(500, "Could not extract content from the URL",
                         "none"))
  ELSE Source(ModelText(o.content))

\* The answer to a translation that callVeniceWithRetry returned as failed.
TranslationFailure(r) ==
  IF r.status = 429 THEN
    GenError(429, "Rate limit exceeded. Venice AI has too many requests. Please wait a few minutes and try again.",
             "RATE_LIMIT")
  ELSE IF r.status = 401 THEN
    GenError(401, "Invalid or missing API key. Please check your Venice API key configuration.",
             "AUTH_ERROR")
  ELSE IF r.status = 503 THEN
    GenError(503, "Venice AI service is temporarily unavailable. Please try again in a moment.",
             "SERVICE_UNAVAILABLE")
  ELSE OuterCatch(GenError(IF r.status = 0 THEN 500 ELSE r.status,
                           "Venice API error", "API_ERROR"))

\* An end of the handler that answers with whatever was extracted.
UnvalidatedContent(jp, en, src) == GenSuccess(jp, en, src)

\* if (!japanese || japanese.trim().length === 0) and the success response;
\* .trim() of a value that is no string throws
ValidatedContent(jp, en, src) ==
  IF ~Truthy(jp) THEN EmptyTranslationError
  ELSE IF ~IsString(jp) THEN InternalServerError
  ELSE IF Trim(jp.str) = <<>> THEN EmptyTranslationError
  ELSE GenSuccess(jp, en, src)

\* The handler from the return of callVeniceWithRetry with result r, the JSON
\* of a successful reply being reply and sourceContent being src.
AfterTranslation(r, reply, src) ==
  IF ~r.ok THEN TranslationFailure(r)
  ELSE IF ~reply.choices THEN InternalServerError
  ELSE LET Validated(p) == ValidatedContent(p.japanese, p.english, src)
       IN  Validated(ExtractedPair(StripThink(reply.content)))

\* The JSON read from the body of a chat-completion response, NoReply when
\* none was read.
Read(o) ==
  IF o.kind = "resp" /\ ResponseOk(o.status) /\ o.read = "ok"
    THEN [choices |-> o.choices, content |-> o.content]
    ELSE NoReply

\* callVeniceWithRetry(apiKey, body, m) is called.
CallVeniceWithRetry(m) ==
  /\ maxRetries' = m
  /\ attempt' = 0
  /\ retryPc' = "loop"
  /\ calls' = 0
  /\ last' = NoOutcome
  /\ transient' = TRUE
  /\ delays' = <<>>
  /\ result' = NoResult

\* The handler answers with r.
GenAnswer(r) ==
  /\ genPc' = "responded"
  /\ genResponse' = r
  /\ UNCHANGED <<genCalls, sourceContent, retryVars>>

\* The handler issues the acquisition request named and awaits it.
GenIssue(pc) ==
  /\ genPc' = pc
  /\ genCalls' = Append(genCalls, pc)
  /\ UNCHANGED <<sourceContent, genResponse, retryVars>>

\* STEP 2 with sourceContent = src: the prompt is built and the translation
\* call is made.
GenTranslate(src) ==
  /\ genPc' = "translating"
  /\ sourceContent' = src
  /\ CallVeniceWithRetry(2)
  /\ UNCHANGED <<genCalls, genResponse>>

\* A text mode that takes the caller's text whole.
TextSourceUncut(req) == CallerText(req.textLen)

\* Mode C: sourceContent = text.slice(0, 10000)
TextSource(req) ==
  CallerText(IF req.textLen < TEXT_CEILING THEN req.textLen ELSE TEXT_CEILING)

\* The handler is not running.
GenIdle ==
  /\ genRequest = MalformedGenRequest
  /\ genApiKey = FALSE
  /\ genPc = "idle"
  /\ genCalls = <<>>
  /\ sourceContent = EmptySource
  /\ upstream = NoChatOutcome
  /\ acquired = NoReply
  /\ rawReply = NoReply
  /\ genResponse = NoGenResponse

GenInit ==
  \E req \in GenRequests, key \in BOOLEAN :
    /\ genRequest = req
    /\ genApiKey = key
    /\ genPc = "start"
    /\ genCalls = <<>>
    /\ sourceContent = EmptySource
    /\ upstream = NoChatOutcome
    /\ acquired = NoReply
    /\ rawReply = NoReply
    /\ genResponse = NoGenResponse

\* The handler from its entry to its first answer or await: the body is
\* read and validated, the API key looked up, and the mode decides what
\* comes next.
GenStart ==
  /\ genPc = "start"
  /\ UNCHANGED <<genRequest, genApiKey, upstream, acquired, rawReply, notGenVars>>
  /\ LET req == genRequest
         mode == ModeOf(req)
     IN  IF req.body = "malformed" THEN GenAnswer(InternalServerError)
         ELSE IF req.vocabList # "given"
           THEN GenAnswer(GenError(400, "Vocabulary list is required", "none"))
         ELSE IF mode = "topic" /\ FieldMissing(req)
           THEN GenAnswer(GenError(400, "Topic is required for web search mode",
                                   "none"))
         ELSE IF mode = "url" /\ FieldMissing(req)
           THEN GenAnswer(GenError(400, "URL is required for URL mode", "none"))
         ELSE IF mode = "text" /\ FieldMissing(req)
           THEN GenAnswer(GenError(400, "Text is required for text input mode",
                                   "none"))
         ELSE IF ~genApiKey
           THEN GenAnswer(GenError(500, "Venice API key not configured", "none"))
         ELSE IF mode = "topic" THEN GenIssue("news")
         ELSE IF mode = "url" THEN GenIssue("page")
         ELSE IF mode = "text" THEN
           IF req.field = "number"
             THEN GenAnswer(InternalServerError)
             ELSE GenTranslate(TextSource(req))
         ELSE GenTranslate(sourceContent)

\* The fetch of topic mode ends in o.
GenNewsReturns(o) ==
  /\ genPc = "news"
  /\ upstream' = o
  /\ acquired' = Read(o)
  /\ UNCHANGED <<genRequest, genApiKey, rawReply, notGenVars>>
  /\ IF AfterNews(o).kind = "answer"
       THEN GenAnswer(AfterNews(o).response)
       ELSE GenTranslate(AfterNews(o).source)

\* The GET of url mode ends in o.
GenPageReturns(o) ==
  /\ genPc = "page"
  /\ UNCHANGED <<genRequest, genApiKey, upstream, acquired, rawReply, notGenVars>>
  /\ IF AfterPage(o).kind = "answer"
       THEN GenAnswer(AfterPage(o).response)
       ELSE GenIssue("extract")

\* The fetch of the extraction call of url mode ends in o.
GenExtractReturns(o) ==
  /\ genPc = "extract"
  /\ upstream' = o
  /\ acquired' = Read(o)
  /\ UNCHANGED <<genRequest, genApiKey, rawReply, notGenVars>>
  /\ IF AfterExtract(o).kind = "answer"
       THEN GenAnswer(AfterExtract(o).response)
       ELSE GenTranslate(AfterExtract(o).source)

\* callVeniceWithRetry has returned; reply is the JSON it returns as data
\* when the call succeeded.
GenTranslationReturns(reply) ==
  /\ genPc = "translating"
  /\ retryPc = "returned"
  /\ result.ok \/ reply = NoReply
  /\ rawReply' = reply
  /\ genPc' = "responded"
  /\ genResponse' = AfterTranslation(result, reply, sourceContent)
  /\ UNCHANGED <<genRequest, genApiKey, genCalls, sourceContent, upstream,
                 acquired, retryVars, notGenVars>>

\* The iterations of the translation call are those of callVeniceWithRetry;
\* with maxRetries = 2 the loop is never left through its condition.
GenNext ==
  \/ GenStart
  \/ \E o \in ChatOutcomes : GenNewsReturns(o)
  \/ \E o \in PageFetchOutcomes : GenPageReturns(o)
  \/ \E o \in ChatOutcomes : GenExtractReturns(o)
  \/ \E reply \in TranslationReplies \cup {NoReply} :
       GenTranslationReturns(reply)
  \/ \E o \in Outcomes : Attempt(o)
  \/ Backoff

-----------------------------------------------------------------------------
(* The source handler: POST of source/route.ts                             *)

\* The request bodies: one that request.json() rejects, and the bodies with
\* inputMode missing, one of the two modes of this endpoint or another
\* string; field tells whether the field of the mode (topic, url) is
\* missing or given.
MalformedSrcRequest ==
  [body |-> "malformed", inputMode |-> "absent", field |-> "absent"]

SrcRequests ==
  {MalformedSrcRequest}
    \cup
  [body : {"json"}, inputMode : {"absent", "topic", "url", "text"},
   field : {"absent", "given"}]

\* The responses of the handler.
NoSrcResponse ==
  [status |-> 0, error |-> "none", errorType |-> "none", sourceContent |-> <<>>]

\* NextResponse.json({ error, errorType }, { status })
SrcError(status, error, errorType) ==
  [status |-> status, error |-> error, errorType |-> errorType,
   sourceContent |-> <<>>]

\* NextResponse.json({ sourceContent })
SrcSuccess(src) ==
  [status |-> 200, error |-> "none", errorType |-> "none", sourceContent |-> src]

\* The answers of the outer catch block and of the catch block of url mode.
SrcInternalServerError == SrcError(500, "Internal server error", "none")
SrcUrlFetchError ==
  SrcError(400, "Failed to fetch the URL. Please check the URL and try again.",
           "none")

\* A handler without catch blocks: the exception leaves it and no response
\* is built.
SrcCatchRethrows(mode) == NoSrcResponse

\* What an exception thrown in mode mode is answered with: url mode has a
\* try block of its own.
SrcCatch(mode) ==
  IF mode = "url" THEN SrcUrlFetchError ELSE SrcInternalServerError

\* The answer to a failed call whose status is neither 429 nor 503:
\* status: result.status || 500.  A response with a body cannot be built
\* for a null-body status.
FailedCallGeneric(r, mode) ==
  LET answer == SrcError(IF r.status = 0 THEN 500 ELSE r.status,
                         IF mode = "url" THEN "Failed to analyze URL content"
                                         ELSE "Failed to gather news",
                         "API_ERROR")
  IN  IF NullBodyStatus(answer.status) THEN SrcCatch(mode) ELSE answer

\* if (!result.ok): 429, 503, and any other status
FailedCall(r, mode) ==
  IF r.status = 429 THEN
    SrcError(429, "Rate limit exceeded. Venice AI has too many requests. Please wait a few minutes and try again.",
             "RATE_LIMIT")
  ELSE IF r.status = 503 THEN
    SrcError(503, "Venice AI service is temporarily unavailable. Please try again in a moment.",
             "SERVICE_UNAVAILABLE")
  ELSE FailedCallGeneric(r, mode)

\* The handler from the return of callVeniceWithRetry with result r in mode
\* mode, the JSON of a successful reply being reply: the failure answers,
\* the read of choices[0], the stripping of the reasoning traces and the
\* check of what is left.
AfterCall(r, reply, mode) ==
  IF ~r.ok THEN FailedCall(r, mode)
  ELSE IF ~reply.choices THEN SrcCatch(mode)
  ELSE IF StripThink(reply.content) = <<>> THEN
    SrcError(500, IF mode = "url" THEN "Could not extract content from the URL"
                                  ELSE "No news content retrieved", "none")
  ELSE SrcSuccess(StripThink(reply.content))

\* The JSON of an acquisition reply: without choices, or with the content
\* named in its first choice.
AcquisitionReplies ==
  {[choices |-> FALSE, content |-> <<>>]}
    \cup
  {[choices |-> TRUE, content |-> c] : c \in AcquisitionTexts}

\* The handler is not running.
SrcIdle ==
  /\ srcRequest = MalformedSrcRequest
  /\ srcApiKey = FALSE
  /\ srcPc = "idle"
  /\ srcCalls = <<>>
  /\ srcReply = NoReply
  /\ srcResponse = NoSrcResponse

SrcInit ==
  \E req \in SrcRequests, key \in BOOLEAN :
    /\ srcRequest = req
    /\ srcApiKey = key
    /\ srcPc = "start"
    /\ srcCalls = <<>>
    /\ srcReply = NoReply
    /\ srcResponse = NoSrcResponse

\* The handler answers with r.
SrcAnswer(r) ==
  /\ srcPc' = "responded"
  /\ srcResponse' = r
  /\ UNCHANGED <<srcCalls, retryVars>>

\* The handler from its entry to its first answer or await: the body is
\* read and validated, the API key looked up, and the mode decides what is
\* requested.
SrcStart ==
  /\ srcPc = "start"
  /\ UNCHANGED <<srcRequest, srcApiKey, srcReply, notSrcVars>>
  /\ LET req == srcRequest
     IN  IF req.body = "malformed" THEN SrcAnswer(SrcInternalServerError)
         ELSE IF req.inputMode \notin {"topic", "url"}
           THEN SrcAnswer(SrcError(400, "This endpoint only supports topic and url modes",
                                   "none"))
         ELSE IF req.inputMode = "topic" /\ req.field = "absent"
           THEN SrcAnswer(SrcError(400, "Topic is required for web search mode",
                                   "none"))
         ELSE IF req.inputMode = "url" /\ req.field = "absent"
           THEN SrcAnswer(SrcError(400, "URL is required for URL mode", "none"))
         ELSE IF ~srcApiKey
           THEN SrcAnswer(SrcError(500, "Venice API key not configured", "none"))
         ELSE IF req.inputMode = "topic"
           THEN /\ srcPc' = "calling"
                /\ CallVeniceWithRetry(2)
                /\ UNCHANGED <<srcCalls, srcResponse>>
           ELSE /\ srcPc' = "page"
                /\ srcCalls' = Append(srcCalls, "page")
                /\ UNCHANGED <<srcResponse, retryVars>>

\* The GET of url mode ends in o: an answer, or the extraction call is made.
SrcPageReturns(o) ==
  /\ srcPc = "page"
  /\ UNCHANGED <<srcRequest, srcApiKey, srcCalls, srcReply, notSrcVars>>
  /\ IF o.kind = "throw" THEN SrcAnswer(SrcUrlFetchError)
     ELSE IF ~ResponseOk(o.status)
       THEN SrcAnswer(SrcError(400, "Failed to fetch URL", "none"))
     ELSE IF o.read # "ok" THEN SrcAnswer(SrcUrlFetchError)
     ELSE /\ srcPc' = "calling"
          /\ CallVeniceWithRetry(2)
          /\ UNCHANGED srcResponse

\* callVeniceWithRetry has returned; reply is the JSON it returns as data
\* when the call succeeded.
SrcCallReturns(reply) ==
  /\ srcPc = "calling"
  /\ retryPc = "returned"
  /\ result.ok \/ reply = NoReply
  /\ srcReply' = reply
  /\ srcPc' = "responded"
  /\ srcResponse' = AfterCall(result, reply, srcRequest.inputMode)
  /\ UNCHANGED <<srcRequest, srcApiKey, srcCalls, retryVars, notSrcVars>>

\* The iterations of the call are those of callVeniceWithRetry.
SrcNext ==
  \/ SrcStart
  \/ \E o \in PageFetchOutcomes : SrcPageReturns(o)
  \/ \E reply \in AcquisitionReplies \cup {NoReply} : SrcCallReturns(reply)
  \/ \E o \in Outcomes : Attempt(o)
  \/ Backoff

-----------------------------------------------------------------------------
(* Two handler runs in one process: their steps interleave at every await  *)

Runs == {1, 2}

\* Requests that pass the validation of their handler: a topic request to
\* the source handler, a text request to the generate handler.
RunRequests ==
  {[handler |-> "source", mode |-> "topic"],
   [handler |-> "generate", mode |-> "text"]}

NoRunRequest == [handler |-> "none", mode |-> "none"]

\* What a request of a run to the upstream can end in.
RunOutcomes ==
  {TransportFailure}
    \cup
  [kind : {"resp"}, status : {200, 401, 429}, read : {"ok"}, body : {"b1"}]

\* The JSON a successful call returns to the run: without choices, or with
\* a text.
RunReplies(req) ==
  IF req.handler = "source"
    THEN {[choices |-> FALSE, content |-> <<>>],
          [choices |-> TRUE, content |-> Text(<<"word">>)]}
    ELSE {[choices |-> FALSE, content |-> <<>>],
          [choices |-> TRUE, content |-> CleanJson(JP, EN)]}

\* The response of either handler, told apart by the handler's name.
NoRunResponse == [of |-> "none", payload |-> NoSrcResponse]
RunResponse(req, r, reply) ==
  IF req.handler = "source"
    THEN [of |-> "source", payload |-> AfterCall(r, reply, req.mode)]
    ELSE [of |-> "generate",
          payload |-> AfterTranslation(r, reply, CallerText(1))]

NoRun ==
  [request |-> NoRunRequest, pc |-> "idle", seen |-> <<>>, reply |-> NoReply,
   result |-> NoResult, response |-> NoRunResponse]

\* A loop variable at module level: every call works on the same one.
FrameShared(run) == 1

\* for (let attempt = 0; ...): every call of callVeniceWithRetry has a
\* variable attempt of its own.
Frame(run) == run

RunsIdle ==
  /\ runs = [r \in Runs |-> NoRun]
  /\ frames = [r \in Runs |-> 0]

RunsInit ==
  /\ runs \in [Runs -> {[NoRun EXCEPT !.request = req, !.pc = "start"] :
                           req \in RunRequests}]
  /\ frames = [r \in Runs |-> 0]

\* Run r comes to its call of callVeniceWithRetry: attempt = 0.
RunCalls(r) ==
  /\ runs[r].pc = "start"
  /\ runs' = [runs EXCEPT ![r].pc = "calling"]
  /\ frames' = [frames EXCEPT ![Frame(r)] = 0]
  /\ UNCHANGED notRunVars

\* The request of run r ends in o and the iteration runs to its return or
\* to its await of the timer.
RunAttempt(r, o) ==
  /\ runs[r].pc = "calling"
  /\ LET it == Iteration(o, frames[Frame(r)], 2)
     IN  runs' = [runs EXCEPT
                    ![r].seen = Append(@, o),
                    ![r].pc = IF it.kind = "return" THEN "returned"
                                                    ELSE "sleeping",
                    ![r].result = it.value]
  /\ UNCHANGED <<frames, notRunVars>>

\* The timer of run r fires: attempt++, and the loop condition is tested.
RunBackoff(r) ==
  /\ runs[r].pc = "sleeping"
  /\ frames' = [frames EXCEPT ![Frame(r)] = @ + 1]
  /\ runs' = IF frames'[Frame(r)] <= 2
               THEN [runs EXCEPT ![r].pc = "calling"]
               ELSE [runs EXCEPT
                       ![r].pc = "returned",
                       ![r].result = [ok |-> FALSE, status |-> 0,
                                      data |-> "none",
                                      errorText |-> "Max retries exceeded"]]
  /\ UNCHANGED notRunVars

\* The call of run r has returned, reply being the JSON it returns as data
\* when it succeeded: the handler answers.
RunAnswers(r, reply) ==
  /\ runs[r].pc = "returned"
  /\ IF runs[r].result.ok
       THEN reply \in RunReplies(runs[r].request)
       ELSE reply = NoReply
  /\ runs' = [runs EXCEPT
                ![r].pc = "responded",
                ![r].reply = reply,
                ![r].response = RunResponse(runs[r].request, runs[r].result,
                                            reply)]
  /\ UNCHANGED <<frames, notRunVars>>

RunsNext ==
  \E r \in Runs :
    \/ RunCalls(r)
    \/ \E o \in RunOutcomes : RunAttempt(r, o)
    \/ RunBackoff(r)
    \/ \E reply \in RunReplies(runs[r].request) \cup {NoReply} :
         RunAnswers(r, reply)

-----------------------------------------------------------------------------
(* The structured-output extraction of the generate handler on its own:    *)
(* lines 360-441 of generate/route.ts applied to one model text            *)

\* The characters of the strings a reply carries.
ValueTokens == {Tok(k) : k \in {"x", "n", "quote", "backslash", "newline"}}

RECURSIVE ValuesOfLen(_)
ValuesOfLen(n) ==
  IF n = 0 THEN {<<>>}
  ELSE {Append(v, t) : v \in ValuesOfLen(n - 1), t \in ValueTokens}

Values == UNION {ValuesOfLen(n) : n \in 0 .. MaxValueLen}

Forms == {"json", "fenced", "quoted"}

\* A string with a fenced block that is no JSON inside.
FencedWord == Text(<<"fence", "x", "fence">>)

\* Model texts that are none of the three forms: the translation replies of
\* the handler model; JSON objects with a fenced block inside a string, the
\* other member being a number or holding an escaped backslash; the JSON
\* null; a fence around a text that is no JSON; a text cut off behind an
\* escaped quote; an object whose strings are not quoted.
OtherTexts ==
  TranslationTexts
    \cup
  {CleanJson(Literal(FencedWord), NumberLiteral),
   CleanJson(NumberLiteral, Literal(FencedWord)),
   CleanJson(Literal(FencedWord), Literal(Text(<<"backslash", "n">>))),
   CleanJson(Literal(FencedWord), EN),
   NullLiteral,
   Text(<<"fence", "json", "newline", "word", "newline", "fence">>),
   Text(<<"{">>) \o Member("japanese",
                          Text(<<"quote", "x", "backslash", "quote", "x">>)),
   Text(<<"{", "japanese", ":", "space", "word", ",", "space", "english",
          ":", "space", "x", "}">>)}

\* The strings a reply may be cut off in: they hold blanks as well.
RECURSIVE CutValuesOfLen(_)
CutValuesOfLen(n) ==
  IF n = 0 THEN {<<>>}
  ELSE {Append(v, Tok(k)) : v \in CutValuesOfLen(n - 1),
                            k \in {"x", "space", "quote", "backslash"}}

\* What is left of the string literal of such a string when the reply is
\* cut off inside it: the opening quote and at least one character more,
\* the cut falling behind any character, also between the two characters of
\* an escape.
TruncatedLiterals ==
  UNION {{Text(<<"quote">>) \o SubSeq(JsonEscape(v), 1, n) :
            n \in 1 .. Len(JsonEscape(v))} :
           v \in UNION {CutValuesOfLen(k) : k \in 1 .. MaxValueLen}}

\* Replies cut off inside the value of japanese, the key standing in an
\* object or in a sentence.
TruncatedTexts ==
  {start \o Member("japanese", cut) :
     start \in {Text(<<"{">>), Text(<<"word", ":", "space">>)},
     cut \in TruncatedLiterals}

\* Replies made of reasoning-trace delimiters: the opening delimiter in
\* lower and in upper case, the closing one, the two parts of an opening
\* delimiter, a blank and a word, in every order.
RECURSIVE TracesOfLen(_)
TracesOfLen(n) ==
  IF n = 0 THEN {<<>>}
  ELSE {Append(t, Tok(k)) :
          t \in TracesOfLen(n - 1),
          k \in {"open", "OPEN", "close", "<thi", "nk>", "space", "word"}}

TraceTexts == UNION {TracesOfLen(n) : n \in 1 .. MaxTraceLen}

NoExInput == [form |-> "none", japanese |-> <<>>, english |-> <<>>, text |-> <<>>]

\* The pairs of strings a reply carries: every string next to a string of
\* at most one character, on either side.
ValuePairs ==
  {p \in Values \X Values : Len(p[1]) <= 1 \/ Len(p[2]) <= 1}

ExInputs ==
  {[form |-> f, japanese |-> p[1], english |-> p[2],
    text |-> FormText(f, Literal(p[1]), Literal(p[2]))] :
     f \in Forms, p \in ValuePairs}
    \cup
  {[form |-> "other", japanese |-> <<>>, english |-> <<>>, text |-> t] :
     t \in OtherTexts \cup TruncatedTexts \cup TraceTexts}

NoPair == [japanese |-> Undefined, english |-> Undefined]

ExIdle ==
  /\ exInput = NoExInput
  /\ exPc = "idle"
  /\ pair = NoPair

ExInit ==
  \E i \in ExInputs :
    /\ exInput = i
    /\ exPc = "input"
    /\ pair = NoPair

\* Lines 360-441: the reasoning traces are stripped and the pair is taken
\* from what is left.  An exception that left extractFields would leave
\* these lines without a pair.
Extract ==
  /\ exPc = "input"
  /\ LET Taken(extracted, rawContent) ==
           IF extracted.threw
             THEN pair' = NoPair /\ exPc' = "raised"
             ELSE pair' = PairFrom(extracted, rawContent) /\ exPc' = "done"
         Stripped(rawContent) == Taken(extractFields(rawContent), rawContent)
     IN  Stripped(StripThink(exInput.text))
  /\ UNCHANGED exInput
  /\ UNCHANGED notExVars

ExNext == Extract

-----------------------------------------------------------------------------------------------------------------------------------
(* The client: the component Home of the two-stage page, its handler       *)
(* handleGenerate and its enrichment effect                                *)

\* The runs of handleGenerate are numbered in the order they start.
ClientRuns == 1 .. MaxRuns

\* The texts a translation answers with as japanese: U+4E00, U+9FAF "a",
\* and "a" (no kanji).
ClientContents == { <<19968>>, <<40879, 97>>, <<97>> }

\* The vocabulary lists the user loads: one word "a" U+4E00, one word
\* U+4E5D.
ClientVocabs == { << <<97, 19968>> >>, << <<20061>> >> }

\* A value of the state kanjiInfo: the list the enrichment endpoint answers
\* for the characters named ([] for none), or undefined.
KanjiInfoFor(kanji) == [kind |-> "list", for |-> kanji]
KanjiInfoUndefined == [kind |-> "undefined", for |-> <<>>]

\* The state of Home behind its useState calls, before it is mounted and
\* after its first render.
NoPage ==
  [mounted |-> FALSE, vocabList |-> <<>>, generatedContent |-> <<>>,
   englishTranslation |-> <<>>, newsContent |-> "", isLoading |-> FALSE,
   isTranslating |-> FALSE, loadingStage |-> "source", unknownKanji |-> <<>>,
   kanjiInfo |-> KanjiInfoFor(<<>>), isLoadingKanji |-> FALSE, error |-> ""]

MountedPage(list) == [NoPage EXCEPT !.mounted = TRUE, !.vocabList = list]

NoHistory ==
  [uploads |-> 0, writer |-> 0, lastEnded |-> FALSE, lookupFailed |-> FALSE,
   overlapped |-> FALSE]

\* The component is not mounted.
ClientIdle ==
  /\ page = NoPage
  /\ clientRuns = [r \in ClientRuns |-> "idle"]
  /\ kanjiLookups = <<>>
  /\ clientHistory = NoHistory

\* The component after its mount: the vocabulary list is empty or the one
\* saved in localStorage.
ClientInit ==
  \E list \in {<<>>} \cup ClientVocabs :
    /\ page = MountedPage(list)
    /\ clientRuns = [r \in ClientRuns |-> "idle"]
    /\ kanjiLookups = <<>>
    /\ clientHistory = NoHistory

\* The runs of handleGenerate that have started and not ended.
RunsInProgress == {r \in ClientRuns : clientRuns[r] \in {"source", "translate", "text"}}
RunsStarted == {r \in ClientRuns : clientRuns[r] # "idle"}

\* fetchKanjiInfo up to its await, run by the effect on the page p: the
\* page it leaves and the lookup it has started, if any.
Effect(p) ==
  IF p.generatedContent = <<>>
    THEN [page |-> [p EXCEPT !.unknownKanji = <<>>,
                             !.kanjiInfo = KanjiInfoFor(<<>>)],
          fetch |-> FALSE, kanji |-> <<>>]
    ELSE LET kanji == extractUnknownKanji(p.generatedContent, p.vocabList)
         IN  IF kanji = <<>>
               THEN [page |-> [p EXCEPT !.unknownKanji = kanji,
                                        !.kanjiInfo = KanjiInfoFor(<<>>)],
                     fetch |-> FALSE, kanji |-> <<>>]
               ELSE [page |-> [p EXCEPT !.unknownKanji = kanji,
                                        !.isLoadingKanji = TRUE],
                     fetch |-> TRUE, kanji |-> kanji]

\* The render that follows a step which leaves the page p: the effect runs
\* when generatedContent or vocabList has changed (changed says that
\* vocabList has been set anew).
Commit(p, changed) ==
  IF changed \/ p.generatedContent # page.generatedContent
    THEN /\ page' = Effect(p).page
         /\ kanjiLookups' = IF Effect(p).fetch
                              THEN Append(kanjiLookups, Effect(p).kanji)
                              ELSE kanjiLookups
    ELSE /\ page' = p
         /\ kanjiLookups' = kanjiLookups

\* The Generate button and the Enter key: disabled={isLoading ||
\* vocabList.length === 0} and e.key === 'Enter' && !isLoading &&
\* vocabList.length > 0.  blank says that the input of the mode is empty or
\* white space.
CanGenerate(mode, blank) ==
  /\ ~page.isLoading
  /\ page.vocabList # <<>>

\* handleGenerate is called in mode mode: it ends at its validation, or
\* sets the flags, clears the content and issues its first request.
Generate(mode, blank) ==
  /\ page.mounted
  /\ CanGenerate(mode, blank)
  /\ IF blank
       THEN /\ Commit([page EXCEPT !.error = "Please enter"], FALSE)
            /\ clientHistory' =
                 [clientHistory EXCEPT
                    !.lastEnded = TRUE,
                    !.overlapped = @ \/ RunsInProgress # {}]
            /\ UNCHANGED clientRuns
       ELSE /\ RunsStarted # ClientRuns
            /\ LET r == Cardinality(RunsStarted) + 1
               IN  clientRuns' =
                     [clientRuns EXCEPT
                        ![r] = IF mode = "text" THEN "text" ELSE "source"]
            /\ Commit([page EXCEPT !.isLoading = TRUE, !.error = "",
                                   !.generatedContent = <<>>,
                                   !.englishTranslation = <<>>,
                                   !.newsContent = "",
                                   !.loadingStage =
                                     IF mode = "text" THEN @ ELSE "source"],
                      FALSE)
            /\ clientHistory' =
                 [clientHistory EXCEPT
                    !.lastEnded = FALSE,
                    !.overlapped = @ \/ RunsInProgress # {}]
  /\ UNCHANGED notClientVars

\* What a request of handleGenerate can end in: fetch or response.json()
\* rejects; a response that is not ok; an ok response without content; an
\* ok response with content.
ClientOutcomes == {"throw", "error", "empty", "ok"}

\* The catch block of handleGenerate.
CaughtPage(p) ==
  [p EXCEPT !.error = "Network error", !.isLoading = FALSE,
            !.isTranslating = FALSE]

\* Run r ends.
RunEnds(r) ==
  /\ clientRuns' = [clientRuns EXCEPT ![r] = "done"]
  /\ clientHistory' = [clientHistory EXCEPT !.lastEnded = TRUE]

\* Run r ends with generatedContent set.
RunEndsWithContent(r) ==
  /\ clientRuns' = [clientRuns EXCEPT ![r] = "done"]
  /\ clientHistory' = [clientHistory EXCEPT !.lastEnded = TRUE, !.writer = r]

\* The request to /api/source of run r ends in o.
SourceReturns(r, o) ==
  /\ clientRuns[r] = "source"
  /\ CASE o = "throw" -> Commit(CaughtPage(page), FALSE) /\ RunEnds(r)
       [] o = "error" ->
            /\ Commit([page EXCEPT !.error = "Failed to fetch source content",
                                   !.isLoading = FALSE], FALSE)
            /\ RunEnds(r)
       [] o = "empty" ->
            /\ Commit([page EXCEPT !.error = "No content was found",
                                   !.isLoading = FALSE], FALSE)
            /\ RunEnds(r)
       [] OTHER ->
            /\ Commit([page EXCEPT !.newsContent = "source",
                                   !.isLoading = FALSE,
                                   !.isTranslating = TRUE,
                                   !.loadingStage = "translate"], FALSE)
            /\ clientRuns' = [clientRuns EXCEPT ![r] = "translate"]
            /\ clientHistory' = [clientHistory EXCEPT !.lastEnded = FALSE]
  /\ UNCHANGED notClientVars

\* The request to /api/generate of stage 2 of run r ends in o, with the
\* japanese text c when it has content.
TranslateReturns(r, o, c) ==
  /\ clientRuns[r] = "translate"
  /\ CASE o = "throw" -> Commit(CaughtPage(page), FALSE) /\ RunEnds(r)
       [] o = "error" ->
            /\ Commit([page EXCEPT !.error = "Failed to translate content",
                                   !.isTranslating = FALSE], FALSE)
            /\ RunEnds(r)
       [] o = "empty" ->
            /\ Commit([page EXCEPT !.error = "Translation failed",
                                   !.isTranslating = FALSE], FALSE)
            /\ RunEnds(r)
       [] OTHER ->
            /\ Commit([page EXCEPT !.generatedContent = c,
                                   !.englishTranslation = c,
                                   !.isTranslating = FALSE], FALSE)
            /\ RunEndsWithContent(r)
  /\ UNCHANGED notClientVars

\* The request to /api/generate of a text-mode run r ends in o.
TextReturns(r, o, c) ==
  /\ clientRuns[r] = "text"
  /\ CASE o = "throw" -> Commit(CaughtPage(page), FALSE) /\ RunEnds(r)
       [] o = "error" ->
            /\ Commit([page EXCEPT !.error = "Failed to generate content",
                                   !.isLoading = FALSE], FALSE)
            /\ RunEnds(r)
       [] o = "empty" ->
            /\ Commit([page EXCEPT !.error = "No content was generated",
                                   !.isLoading = FALSE], FALSE)
            /\ RunEnds(r)
       [] OTHER ->
            /\ Commit([page EXCEPT !.generatedContent = c,
                                   !.englishTranslation = c,
                                   !.newsContent = "text",
                                   !.isLoading = FALSE], FALSE)
            /\ RunEndsWithContent(r)
  /\ UNCHANGED notClientVars

\* handleFileUpload: the reader has loaded the file and setVocabList is
\* called with a new array.
Upload(list) ==
  /\ page.mounted
  /\ clientHistory.uploads < MaxUploads
  /\ Commit([page EXCEPT !.vocabList = list], TRUE)
  /\ clientHistory' = [clientHistory EXCEPT !.uploads = @ + 1,
                                            !.lastEnded = FALSE]
  /\ UNCHANGED <<clientRuns, notClientVars>>

\* What a lookup can end in: a list (the endpoint answers 200 with
\* kanjiInfo), an error payload without kanjiInfo (400 or 500), or an
\* exception (fetch or response.json() rejects).
LookupAnswers == {"list", "error", "throw"}

\* fetchKanjiInfo behind its await: setKanjiInfo(data.kanjiInfo), and
\* setIsLoadingKanji(false) in the finally block.
AfterLookup(p, kanji, o) ==
  [p EXCEPT !.kanjiInfo = CASE o = "list" -> KanjiInfoFor(kanji)
                            [] o = "error" -> KanjiInfoUndefined
                            [] OTHER -> @,
            !.isLoadingKanji = FALSE]

\* The i-th pending lookup ends in o.
LookupReturns(i, o) ==
  /\ i \in 1 .. Len(kanjiLookups)
  /\ page' = AfterLookup(page, kanjiLookups[i], o)
  /\ kanjiLookups' = SubSeq(kanjiLookups, 1, i - 1)
                       \o SubSeq(kanjiLookups, i + 1, Len(kanjiLookups))
  /\ clientHistory' =
       [clientHistory EXCEPT !.lastEnded = FALSE,
                             !.lookupFailed = @ \/ o # "list"]
  /\ UNCHANGED <<clientRuns, notClientVars>>

ClientNext ==
  \/ \E mode \in {"topic", "url", "text"}, blank \in BOOLEAN :
       Generate(mode, blank)
  \/ \E r \in ClientRuns, o \in ClientOutcomes : SourceReturns(r, o)
  \/ \E r \in ClientRuns, o \in ClientOutcomes, c \in ClientContents :
       TranslateReturns(r, o, c)
  \/ \E r \in ClientRuns, o \in ClientOutcomes, c \in ClientContents :
       TextReturns(r, o, c)
  \/ \E list \in ClientVocabs : Upload(list)
  \/ \E i \in 1 .. MaxRuns + MaxUploads, o \in LookupAnswers :
       LookupReturns(i, o)

-----------------------
(* Specifications                                                          *)

\* One call of callVeniceWithRetry, for every maxRetries and every sequence of
\* upstream outcomes.
InitRetry == RetryInit /\ SyncIdle /\ KanjiIdle /\ HlIdle /\ EnrichIdle /\ GenIdle
    /\ SrcIdle /\ ExIdle /\ RunsIdle /\ ClientIdle
SpecRetry == InitRetry /\ [][RetryNext]_vars

\* One run of the progress-sync handler up to the end of its two
\* fetchAllPages calls, for every request body and every sequence of pages.
InitPages == PagesInit /\ RetryIdle /\ KanjiIdle /\ HlIdle /\ EnrichIdle /\ GenIdle
    /\ SrcIdle /\ ExIdle /\ RunsIdle /\ ClientIdle
SpecPages == InitPages /\ [][PagesNext]_vars

\* The progress-sync handler after its two fetchAllPages calls, for every
\* list of assignments and every list of subjects they can have returned.
InitSync == SyncInit /\ RetryIdle /\ KanjiIdle /\ HlIdle /\ EnrichIdle /\ GenIdle
    /\ SrcIdle /\ ExIdle /\ RunsIdle /\ ClientIdle
SpecSync == InitSync /\ [][SyncNext]_vars

\* The kanji extraction of the page and of the generate handler, for every
\* word list.
InitKanji == KanjiInit /\ RetryIdle /\ SyncIdle /\ HlIdle /\ EnrichIdle /\ GenIdle
    /\ SrcIdle /\ ExIdle /\ RunsIdle /\ ClientIdle
SpecKanji == InitKanji /\ [][KanjiNext]_vars

\* The classification run twice on the same lists, and the extraction of
\* the page run twice on the same word list and once on its own output.
InitRerun == InitSync \/ InitKanji
SpecRerun == InitRerun /\ [][RerunNext]_vars

\* highlightText, for every text and every vocabulary list.
InitHighlight == HlInit /\ RetryIdle /\ SyncIdle /\ KanjiIdle /\ EnrichIdle /\ GenIdle
    /\ SrcIdle /\ ExIdle /\ RunsIdle /\ ClientIdle
SpecHighlight == InitHighlight /\ [][HlNext]_vars

\* One run of the enrichment handler, for every request body, every outcome
\* of every lookup and every order in which the lookups end.
InitEnrich ==
  EnrichInit /\ RetryIdle /\ SyncIdle /\ KanjiIdle /\ HlIdle /\ GenIdle
    /\ SrcIdle /\ ExIdle /\ RunsIdle /\ ClientIdle
SpecEnrich == InitEnrich /\ [][EnrichNext]_vars

\* One run of the generate handler, for every request body, every outcome of
\* its acquisition requests, every sequence of outcomes of its translation
\* call and every translation reply.
InitGenerate ==
  GenInit /\ RetryIdle /\ SyncIdle /\ KanjiIdle /\ HlIdle /\ EnrichIdle
    /\ SrcIdle /\ ExIdle /\ RunsIdle /\ ClientIdle
SpecGenerate == InitGenerate /\ [][GenNext]_vars

\* One run of the source handler, for every request body, every outcome of
\* the GET of the page, every sequence of outcomes of its call and every
\* reply.
InitSource ==
  SrcInit /\ RetryIdle /\ SyncIdle /\ KanjiIdle /\ HlIdle /\ EnrichIdle
    /\ GenIdle /\ ExIdle /\ RunsIdle /\ ClientIdle
SpecSource == InitSource /\ [][SrcNext]_vars

\* One run of one of the four handlers.
InitHandlers == InitPages \/ InitEnrich \/ InitGenerate \/ InitSource
HandlersNext == PagesNext \/ EnrichNext \/ GenNext \/ SrcNext
SpecHandlers == InitHandlers /\ [][HandlersNext]_vars

\* Two runs, for every pair of requests, every interleaving of their steps
\* and every outcome of their requests.
InitRuns ==
  RunsInit /\ RetryIdle /\ SyncIdle /\ KanjiIdle /\ HlIdle /\ EnrichIdle
    /\ GenIdle /\ SrcIdle /\ ExIdle /\ ClientIdle
SpecRuns == InitRuns /\ [][RunsNext]_vars

\* The extraction applied to every model text drawn.
InitExtract ==
  ExInit /\ RetryIdle /\ SyncIdle /\ KanjiIdle /\ HlIdle /\ EnrichIdle
    /\ GenIdle /\ SrcIdle /\ RunsIdle /\ ClientIdle
SpecExtract == InitExtract /\ [][ExNext]_vars

------------------------------------------------------\* The page from its mount on, for every saved vocabulary list, every
\* sequence of calls of handleGenerate and of uploads, every outcome of
\* every request and every order in which the requests end.
InitClient ==
  ClientInit /\ RetryIdle /\ SyncIdle /\ KanjiIdle /\ HlIdle /\ EnrichIdle
    /\ GenIdle /\ SrcIdle /\ ExIdle /\ RunsIdle
SpecClient == InitClient /\ [][ClientNext]_vars

-----------------------
(* Claims about callVeniceWithRetry, checked under SpecRetry               *)

\* A response with a 4xx status other than 429.
ClientError(o) ==
  o.kind = "resp" /\ o.status >= 400 /\ o.status < 500 /\ o.status # 429

\* A response with a success status.
SuccessResponse(o) == o.kind = "resp" /\ ResponseOk(o.status)

\* The read of the body that the code performs on this response rejects:
\* response.json() on a success response, response.text() on any other.
BodyReadFails(o) ==
  o.kind = "resp" /\ (IF ResponseOk(o.status) THEN o.read # "ok" ELSE o.read = "abort")

\* A further request is going to be issued: the backoff timer is running, or
\* it has fired and the loop is entered again.
FurtherRequest ==
  \/ retryPc = "sleep"
  \/ retryPc = "loop" /\ calls >= 1 /\ attempt <= maxRetries

\* The retries made so far when a further request is about to be issued.
RetriesSoFar == calls - 1

C2_ClientErrorEndsCall ==
  ClientError(last) =>
    /\ retryPc = "returned"
    /\ ~result.ok
    /\ result.status = last.status

C4_NeverThrows ==
  /\ retryPc # "thrown"
  /\ retryPc \in {"loop", "sleep"} => ENABLED RetryNext
  /\ retryPc = "returned" =>
       /\ result # NoResult
       /\ result.ok <=> (SuccessResponse(last) /\ last.read = "ok")
       /\ result.ok => result.data = last.body

\* C4 witness: maxRetries = 2, all three attempts failed, the last one while the
\* body of the response was being read; the call returned ok=false, status 0.
C4_Witness ==
  /\ retryPc = "returned"
  /\ maxRetries = 2
  /\ calls = 3
  /\ last.kind = "resp" /\ last.read = "abort"
  /\ result = [ok |-> FALSE, status |-> 0, data |-> "none",
               errorText |-> "exception"]

-----------------------------------------------------------------------------
(* Claims about fetchAllPages, checked under SpecPages                     *)

\* The items of the pages served for the first n requests, in page order.
RECURSIVE ServedItems(_)
ServedItems(n) ==
  IF n = 0 THEN <<>>
  ELSE ServedItems(n - 1) \o PageItems(requested[n], served[n].size)

\* A request that ended in a page: an ok response whose body was read.
IsPage(o) == o.kind = "resp" /\ ResponseOk(o.status) /\ o.read = "ok"

\* A request that ended in a response with a non-success status.
NonSuccess(o) == o.kind = "resp" /\ ~ResponseOk(o.status)

\* The running fetchAllPages call has returned to the handler.
CallReturned == syncPc \in {"between", "fetched"}

\* What the call returned.
Returned == IF endpoint = "assignments" THEN assignments ELSE subjects

\* C5: over N pages chained by next_url and ending in next_url = null,
\* fetchAllPages issues exactly N requests, the first to the start url and
\* request i+1 to the next_url of page i, and returns the concatenation of the
\* N pages' items in page order.
C5_PagesConcatenated ==
  /\ Len(requested) = Len(served)
  /\ Len(requested) >= 1 => requested[1] = StartUrl(endpoint)
  /\ \A i \in 1 .. Len(requested) - 1 :
       IsPage(served[i]) /\ served[i].next # NoUrl /\ requested[i + 1] = served[i].next
  /\ CallReturned =>
       /\ Len(served) >= 1
       /\ IsPage(served[Len(served)])
       /\ served[Len(served)].next = NoUrl
       /\ Returned = ServedItems(Len(served))
  /\ (syncPc = "fetching" /\ Len(served) >= 1) => url = served[Len(served)].next

\* C5 witness: the subjects were served as three pages, the second of them
\* empty, and the call returned the four items of pages 1 and 3 in page order.
C5_Witness ==
  /\ syncPc = "fetched"
  /\ Len(requested) = 3
  /\ served[1].size = 2 /\ served[2].size = 0 /\ served[3].size = 2
  /\ subjects = << <<"subjects", 1, 1>>, <<"subjects", 1, 2>>,
                   <<"subjects", 3, 1>>, <<"subjects", 3, 2>> >>
  /\ Len(assignments) = 1

\* C6: when a page request gets a non-success status, fetchAllPages fails at
\* that page: it is the last request, nothing is returned to the handler and
\* no items reach the response, and the handler reports a 401 as the
\* invalid-API-key error and any other status as the generic upstream error.
C6_FailsAtPage ==
  \A i \in 1 .. Len(served) :
    NonSuccess(served[i]) =>
      /\ i = Len(served)
      /\ Len(requested) = i
      /\ syncPc = "responded"
      /\ Returned = <<>>
      /\ subjects = <<>>
      /\ response.kanji = <<>> /\ response.count = -1
      /\ response.status >= 400
      /\ IF served[i].status = 401
           THEN response.error = InvalidKeyError /\ response.status = 401
           ELSE response.error = ApiError(served[i].status, served[i].statusText)

\* C6 witness: the second page of the subjects is refused with a 403 after a
\* first page of two items; the handler answers 500 with the generic error.
C6_Witness ==
  /\ syncPc = "responded"
  /\ endpoint = "subjects"
  /\ Len(assignments) >= 1
  /\ Len(served) = 2
  /\ served[1].size = 2
  /\ served[2].status = 403 /\ served[2].statusText = ""
  /\ results = PageItems(StartUrl("subjects"), 2)
  /\ response = [status |-> 500, error |-> ApiError(403, ""),
                 kanji |-> <<>>, count |-> -1]

-----------------------------------------------------------------------------
(* Claims about the classification of the progress-sync handler, checked   *)
(* under SpecSync                                                          *)

\* The subjects of the fetched list that assignment a names (none or one).
SubjectsOf(a) == SelectSeq(subjects, LAMBDA s : s.id = a.subject_id)

\* Assignment a qualifies as known: its subject is in the list, is of kind
\* kanji, and its stage has reached the threshold.
Qualifies(a) ==
  /\ SubjectsOf(a) # <<>>
  /\ SubjectsOf(a)[1].object = "kanji"
  /\ a.srs_stage >= KNOWN_THRESHOLD

\* How often c occurs in seq.
Occurrences(seq, c) == Cardinality({i \in 1 .. Len(seq) : seq[i] = c})

\* The qualifying assignments, in the order in which they were matched, each
\* with the characters and the level of its own subject (no level counts as 0).
Matches ==
  LET q == SelectSeq(assignments, Qualifies)
  IN  [i \in 1 .. Len(q) |->
         [char |-> SubjectsOf(q[i])[1].characters,
          level |-> IF SubjectsOf(q[i])[1].level = NoLevel
                      THEN 0 ELSE SubjectsOf(q[i])[1].level]]

\* C7: the kanji list of the response holds exactly the characters of the
\* kanji subjects with an assignment at or above KNOWN_THRESHOLD: each
\* qualifying assignment contributes its subject's characters once, and an
\* assignment whose subject is absent, is no kanji or is below the threshold
\* contributes nothing.
C7_ExactlyKnownKanji ==
  syncPc = "responded" =>
    /\ response.status = 200
    /\ Len(response.kanji) = Len(Matches)
    /\ \A c \in Characters :
         Occurrences(response.kanji, c) =
           Cardinality({i \in 1 .. Len(Matches) : Matches[i].char = c})

\* C7 witness: of two assignments the first is below the threshold and the
\* second qualifies; only the second contributes.
C7_Witness ==
  /\ syncPc = "responded"
  /\ Len(assignments) = 2
  /\ SubjectsOf(assignments[1]) # <<>>
  /\ SubjectsOf(assignments[1])[1].object = "kanji"
  /\ SubjectsOf(assignments[1])[1].characters = "A"
  /\ assignments[1].srs_stage < KNOWN_THRESHOLD
  /\ Qualifies(assignments[2])
  /\ response.kanji = <<"B">>

\* C8 (as stated): the kanji list is ordered by ascending level of the
\* subject each character was taken from, characters of equal level in the
\* order in which their assignments were matched, also when two subjects carry
\* the same characters or a subject has no level.
C8_OrderedByOwnLevel ==
  syncPc = "responded" =>
    /\ Len(response.kanji) = Len(Matches)
    /\ \E p \in [1 .. Len(Matches) -> 1 .. Len(Matches)] :
         /\ \A j, k \in 1 .. Len(Matches) : j # k => p[j] # p[k]
         /\ \A k \in 1 .. Len(Matches) : response.kanji[k] = Matches[p[k]].char
         /\ \A k \in 1 .. Len(Matches) - 1 :
              \/ Matches[p[k]].level < Matches[p[k + 1]].level
              \/ /\ Matches[p[k]].level = Matches[p[k + 1]].level
                 /\ p[k] < p[k + 1]

\* Some assignment of the fetched list qualifies.
SomeQualifies == \E i \in 1 .. Len(assignments) : Qualifies(assignments[i])

\* C9: when no assignment qualifies, the handler answers with a success
\* response carrying an empty kanji list and count 0, and in every success
\* response count is the length of the kanji list.
C9_EmptyIsSuccess ==
  syncPc = "responded" =>
    /\ ~SomeQualifies =>
         /\ response.status = 200
         /\ response.error = NoError
         /\ response.kanji = <<>>
         /\ response.count = 0
    /\ response.status = 200 => response.count = Len(response.kanji)

\* C9 witness: two assignments, one below the threshold and one for a subject
\* that is no kanji; the response is a success with no kanji.
C9_Witness ==
  /\ syncPc = "responded"
  /\ Len(assignments) = 2
  /\ SubjectsOf(assignments[1]) # <<>>
  /\ SubjectsOf(assignments[1])[1].object = "kanji"
  /\ assignments[1].srs_stage = KNOWN_THRESHOLD - 1
  /\ SubjectsOf(assignments[2]) # <<>>
  /\ SubjectsOf(assignments[2])[1].object = "vocabulary"
  /\ assignments[2].srs_stage = KNOWN_THRESHOLD
  /\ response = [status |-> 200, error |-> NoError, kanji |-> <<>>, count |-> 0]

-----------------------------------------------------------------------------
(* Claims about the kanji extraction, checked under SpecKanji              *)

\* Code unit c lies in one of the two ideograph ranges, U+4E00 to U+9FAF and
\* U+3400 to U+4DBF.
InIdeographRanges(c) ==
  \/ c \in CJK_FIRST .. CJK_LAST
  \/ c \in EXT_A_FIRST .. EXT_A_LAST

\* The code units that occur in some word of the list.
UnitsOf(list) ==
  UNION {{list[w][k] : k \in 1 .. Len(list[w])} : w \in 1 .. Len(list)}

\* C10: the extraction returns each character of the word list that lies in
\* the ideograph ranges exactly once, in ascending code-point order, and
\* nothing else; the result is empty when the list is empty or holds no
\* ideograph.
C10_UniqueSortedKanji ==
  kanjiPc \in {"page", "handler"} =>
    /\ {uniqueKanji[i] : i \in 1 .. Len(uniqueKanji)} =
         {c \in UnitsOf(vocab) : InIdeographRanges(c)}
    /\ \A i \in 1 .. Len(uniqueKanji) - 1 : uniqueKanji[i] < uniqueKanji[i + 1]
    /\ (\A c \in UnitsOf(vocab) : ~InIdeographRanges(c)) => uniqueKanji = <<>>

\* C10 witness: U+4E8C occurs three times and U+4E5D once, between characters
\* outside the ranges; the result is U+3400, U+4E5D, U+4E8C.
C10_Witness ==
  /\ kanjiPc = "page"
  /\ vocab = << <<13311, 20108, 20108>>, <<20108, 20061>>, <<13312>> >>
  /\ uniqueKanji = <<13312, 20061, 20108>>

-----------------------------------------------------------------------------
(* Claims about highlightText, checked under SpecHighlight                 *)

\* The texts of the segments, concatenated in order.
RECURSIVE ConcatTexts(_)
ConcatTexts(segs) ==
  IF segs = <<>> THEN <<>> ELSE Head(segs).text \o ConcatTexts(Tail(segs))

\* highlightText has returned.
Highlighted == hlPc \in {"null", "rendered"}

\* C11: for every text and vocabulary list, the texts of the segments
\* highlightText emits, concatenated in emission order, are the input text
\* character for character (no segment at all for the empty text).
C11_ConcatReproducesText ==
  Highlighted => ConcatTexts(segments) = text

\* C11 witness: a text of three characters is returned as a plain segment, a
\* highlighted segment and a plain segment.
C11_Witness ==
  /\ hlPc = "rendered"
  /\ Len(text) = 3
  /\ Len(segments) = 3
  /\ ~segments[1].highlighted
  /\ segments[2].highlighted
  /\ ~segments[3].highlighted

\* Character c occurs in some entry of the vocabulary list.
KnownChar(c) ==
  \E w \in 1 .. Len(vocabList) :
    \E j \in 1 .. Len(vocabList[w]) : vocabList[w][j] = c

\* Character c is an ideograph for the segmenter: U+4E00 to U+9FAF.
SegmenterIdeograph(c) == c >= 19968 /\ c <= 40879

\* Number of characters of the text that lie before segment k.
OffsetOf(k) == Len(ConcatTexts(SubSeq(segments, 1, k - 1)))

\* The segments that cover position i of the text.
SegmentsAt(i) ==
  {k \in 1 .. Len(segments) :
     OffsetOf(k) < i /\ i <= OffsetOf(k) + Len(segments[k].text)}

\* Position i is the first occurrence of its character in the text.
FirstOccurrence(i) == \A j \in 1 .. i - 1 : text[j] # text[i]

\* The highlighted segments that hold character c.
HighlightsOf(c) ==
  {k \in 1 .. Len(segments) :
     segments[k].highlighted /\ segments[k].text = <<c>>}

C13_OnlyUnknownIdeographs ==
  Highlighted =>
    \A k \in 1 .. Len(segments) :
      segments[k].highlighted =>
        /\ Len(segments[k].text) = 1
        /\ InIdeographRanges(segments[k].text[1])
        /\ ~KnownChar(segments[k].text[1])

\* C13 witness: the text holds a known ideograph, a character that is no
\* ideograph and an unknown ideograph; only the last is highlighted.
C13_Witness ==
  /\ hlPc = "rendered"
  /\ \E i, j, n \in 1 .. Len(text) :
       /\ SegmenterIdeograph(text[i]) /\ KnownChar(text[i])
       /\ ~InIdeographRanges(text[j])
       /\ SegmenterIdeograph(text[n]) /\ ~KnownChar(text[n])
  /\ Cardinality({k \in 1 .. Len(segments) : segments[k].highlighted}) = 1

-----------------------------------------------------------------------------
(* Claims about the enrichment handler, checked under SpecEnrich           *)

\* The handler has answered a request whose kanji is an array.
EnrichAnswered ==
  enrichPc = "responded" /\ enrichRequest.kind = "array"

\* C14: for every input array of characters and every order in which the
\* lookups complete, the handler returns a kanjiInfo list of the length of
\* the input whose entry at position i has the character of the input's
\* element at position i.
C14_EntriesInInputOrder ==
  EnrichAnswered =>
    /\ enrichResponse.status = 200
    /\ Len(enrichResponse.kanjiInfo) = Len(enrichRequest.kanji)
    /\ \A i \in 1 .. Len(enrichRequest.kanji) :
         enrichResponse.kanjiInfo[i].character = enrichRequest.kanji[i]

\* C14 witness: the lookup of the second of two different characters ends
\* before the lookup of the first.
C14_Witness ==
  /\ EnrichAnswered
  /\ Len(enrichRequest.kanji) = 2
  /\ enrichRequest.kanji[1] # enrichRequest.kanji[2]
  /\ completed = <<2, 1>>

\* Lookup outcome o is a failure: a transport failure, a status that is no
\* success, or a response without result data.
LookupFailed(o) ==
  \/ o.kind = "throw"
  \/ o.kind = "resp" /\ (o.status < 200 \/ o.status > 299)
  \/ o.kind = "resp" /\ o.json /\ (~o.hasData \/ o.data = <<>>)

\* The entry holds nothing but the fixed placeholder strings.
PlaceholderEntry(entry) ==
  \/ /\ entry.meanings = <<"Definition not available">>
     /\ entry.readings = <<"Reading not available">>
  \/ /\ entry.meanings = <<"Error loading definition">>
     /\ entry.readings = <<"Error loading reading">>

\* C15: a failed lookup for one character changes only the entry of that
\* character, which then carries placeholder readings and meanings; the
\* handler still answers with success, and every entry is what the lookup of
\* its own position gives, whatever the other lookups ended in.
C15_FailureStaysLocal ==
  EnrichAnswered =>
    /\ enrichResponse.status = 200
    /\ \A i \in 1 .. Len(enrichRequest.kanji) :
         /\ LookupFailed(lookups[i]) =>
              PlaceholderEntry(enrichResponse.kanjiInfo[i])
         /\ enrichResponse.kanjiInfo[i] =
              LookupCallback(enrichRequest.kanji[i], lookups[i]).value

\* C15 witness: of two lookups the first ends in a transport failure and the
\* second in a candidate with definitions; the second entry has them.
C15_Witness ==
  /\ EnrichAnswered
  /\ Len(enrichRequest.kanji) = 2
  /\ completed = <<1, 2>>
  /\ lookups[1].kind = "throw"
  /\ ~LookupFailed(lookups[2])
  /\ PlaceholderEntry(enrichResponse.kanjiInfo[1])
  /\ enrichResponse.kanjiInfo[2].meanings = <<"d1", "d2", "d3">>

\* The first n elements of seq, all of them when it has fewer.
Prefix(seq, n) ==
  [k \in 1 .. (IF Len(seq) < n THEN Len(seq) ELSE n) |-> seq[k]]

\* The english definitions of all senses of candidate c, in order.
RECURSIVE DefinitionsFrom(_, _)
DefinitionsFrom(c, k) ==
  IF k > Len(c.senses)
    THEN <<>>
    ELSE c.senses[k] \o DefinitionsFrom(c, k + 1)

\* The readings of the forms of candidate c that have one, in order.
RECURSIVE ReadingsFrom(_, _)
ReadingsFrom(c, k) ==
  IF k > Len(c.japanese)
    THEN <<>>
    ELSE (IF c.japanese[k] = "" THEN <<>> ELSE <<c.japanese[k]>>)
           \o ReadingsFrom(c, k + 1)

\* Lookup outcome o has a first candidate that can be read.
HasCandidate(o) ==
  /\ o.kind = "resp" /\ o.status = 200 /\ o.json /\ o.hasData
  /\ o.data # <<>>
  /\ o.data[1].sensesKind # "malformed"

\* C16: every entry the handler returns is populated: it has 1 or 2 readings
\* and 1 to 3 meanings, the first ones of the first candidate of its lookup
\* result, or one placeholder string where the candidate yields none or
\* there is no candidate.
C16_EntriesPopulated ==
  (EnrichAnswered /\ enrichResponse.status = 200) =>
    \A i \in 1 .. Len(enrichResponse.kanjiInfo) :
      LET entry == enrichResponse.kanjiInfo[i]
          o == lookups[i]
      IN  /\ Len(entry.readings) \in 1 .. 2
          /\ Len(entry.meanings) \in 1 .. 3
          /\ IF HasCandidate(o)
               THEN /\ entry.meanings =
                         IF DefinitionsFrom(o.data[1], 1) # <<>>
                           THEN Prefix(DefinitionsFrom(o.data[1], 1), 3)
                           ELSE <<"Definition not available">>
                    /\ entry.readings =
                         IF ReadingsFrom(o.data[1], 1) # <<>>
                           THEN Prefix(ReadingsFrom(o.data[1], 1), 2)
                           ELSE <<"Reading not available">>
               ELSE PlaceholderEntry(entry)

\* C16 witness: one entry has the first 3 of 4 definitions and the first 2 of
\* 3 readings of its candidate, another one the placeholders of a candidate
\* that yields neither.
C16_Witness ==
  /\ EnrichAnswered
  /\ Len(enrichResponse.kanjiInfo) = 2
  /\ HasCandidate(lookups[1])
  /\ Len(DefinitionsFrom(lookups[1].data[1], 1)) = 4
  /\ Len(ReadingsFrom(lookups[1].data[1], 1)) = 3
  /\ enrichResponse.kanjiInfo[1].meanings = <<"d1", "d2", "d3">>
  /\ enrichResponse.kanjiInfo[1].readings = <<"r1", "r2">>
  /\ HasCandidate(lookups[2])
  /\ PlaceholderEntry(enrichResponse.kanjiInfo[2])

-----------------------------------------------------------------------------
(* Claims about the generate handler, checked under SpecGenerate           *)

\* The translation call of the run has been made.
TranslationCalled == retryPc # "idle"

\* A request to acquire the source is in flight.
Acquiring == genPc \in {"news", "page", "extract"}

\* Source text src is empty.
EmptyText(src) == src = EmptySource

\* The handler has answered with an error response.
GenFailed ==
  /\ genPc = "responded"
  /\ genResponse.error # "none"
  /\ genResponse.status >= 400

\* The handler has answered with the success payload.
GenSucceeded ==
  /\ genPc = "responded"
  /\ genResponse.error = "none"
  /\ genResponse.status = 200

\* C17: in one run of the generate handler the translation call is made only
\* after the source acquisition has ended with a source text that is not
\* empty, no acquisition request is in flight while the translation call
\* runs, and a run whose acquisition ended in failure makes no translation
\* call.
C17_TranslationAfterSource ==
  /\ TranslationCalled => (~Acquiring /\ ~EmptyText(sourceContent))
  /\ (GenFailed /\ EmptyText(sourceContent)) => (~TranslationCalled /\ calls = 0)

\* C18: in topic mode and in url mode, when the model text of the
\* acquisition reply is empty once the reasoning trace is stripped from it,
\* the run ends in failure with the empty-content error of its mode and makes
\* no translation call.
C18_EmptyAfterStrippingFails ==
  (acquired.choices /\ StripThink(acquired.content) = <<>>) =>
    /\ ~TranslationCalled
    /\ GenFailed
    /\ genResponse.status = 500
    /\ genResponse.error \in {"No news content retrieved",
                               "Could not extract content from the URL"}

\* The primary text the extraction gives for the translation reply.
ExtractedPrimary == ExtractedPair(StripThink(rawReply.content)).japanese

\* C19: a success response of the generate handler carries a japanese that
\* is neither empty nor white space only and an english that is neither null
\* nor empty; a run whose extracted primary text is empty or white space only
\* ends with an error response.
C19_SuccessHasContent ==
  /\ GenSucceeded =>
       /\ genResponse.japanese.type = "string"
       /\ \E i \in 1 .. Len(genResponse.japanese.str) :
            ~IsSpace(genResponse.japanese.str[i])
       /\ genResponse.english.type \notin {"null", "undefined"}
       /\ genResponse.english # Str(<<>>)
  /\ (genPc = "responded" /\ rawReply.choices
        /\ ExtractedPrimary.type = "string"
        /\ \A i \in 1 .. Len(ExtractedPrimary.str) :
             IsSpace(ExtractedPrimary.str[i])) => GenFailed

\* C19 witness: the reply is a JSON object whose english is null; the
\* response is a success with the japanese of the reply and the placeholder
\* as english.
C19_Witness ==
  /\ GenSucceeded
  /\ rawReply.content = CleanJson(JP, NullLiteral)
  /\ genResponse.japanese = Str(Text(<<"word">>))
  /\ genResponse.english = TranslationNotAvailable

\* C20: in text mode the handler issues no request to acquire the source,
\* the source text is the first 10,000 characters of the caller's text, and
\* every upstream request of the run is a request of the translation call.
C20_TextModeSourceVerbatim ==
  ModeOf(genRequest) = "text" =>
    /\ genCalls = <<>>
    /\ ~Acquiring
    /\ TranslationCalled =>
         /\ sourceContent.kind = "caller"
         /\ sourceContent.len =
              IF genRequest.textLen <= 10000 THEN genRequest.textLen ELSE 10000
    /\ GenSucceeded => genResponse.sourceContent = sourceContent

\* C20 witness: a text of 25,000 characters is translated at the second
\* upstream request of the translation call; the source text of the success
\* response is its first 10,000 characters.
C20_Witness ==
  /\ GenSucceeded
  /\ ModeOf(genRequest) = "text"
  /\ genRequest.textLen = 25000
  /\ genResponse.sourceContent.len = 10000
  /\ genCalls = <<>>
  /\ calls = 2

-----------------------------------------------------------------------------
(* Claims about the backoff of callVeniceWithRetry, checked under SpecRetry *)

\* 2^a seconds, in the milliseconds setTimeout takes.
SecondsPow2(a) ==
  CASE a = 0 -> 1000 [] a = 1 -> 2000 [] a = 2 -> 4000 [] a = 3 -> 8000
    [] a = 4 -> 16000 [] OTHER -> -1

\* C29: the wait before the retry that follows attempt number a (counted
\* from 0) is 2^a seconds; there is no wait before the first attempt and none
\* after the last one: the waits of a call are one fewer than its requests
\* once it has ended, and never more than its requests.
C29_WaitIsPowerOfTwo ==
  /\ \A i \in 1 .. Len(delays) : delays[i] = SecondsPow2(i - 1)
  /\ calls = 0 => delays = <<>>
  /\ Len(delays) = IF retryPc = "sleep" THEN calls
                   ELSE IF retryPc = "loop" THEN calls
                   ELSE IF calls = 0 THEN 0 ELSE calls - 1
  /\ retryPc = "sleep" => attempt = Len(delays) - 1

\* C29 witness: a call with maxRetries = 3 has ended after four requests and
\* the waits 1 s, 2 s and 4 s.
C29_Witness ==
  /\ retryPc = "returned"
  /\ maxRetries = 3
  /\ calls = 4
  /\ delays = <<1000, 2000, 4000>>

-----------------------------------------------------------------------------
(* Claims about repeated runs, checked under SpecRerun                     *)

-----------------------------------------------------------------------------
(* Claims about the structured-output extraction, checked under            *)
(* SpecExtract                                                             *)

\* The pair lines 433-441 take from the result r of a strategy.
PairOf(r) ==
  [japanese |-> r.japanese,
   english |-> IF Truthy(r.english) THEN r.english ELSE TranslationNotAvailable]

\* What each strategy ends in on its own, in the order of the code.
Strategies(content) ==
  <<FencedStrategy(content), WholeStrategy(content), QuotedStrategy(content),
    TruncatedStrategy(content)>>

\* C24: the pair is the result of the first strategy that succeeds in the
\* order fenced block, whole-input parse, quoted-pair regex, truncation
\* fallback: no strategy that would succeed is skipped for a later one.
C24_FirstSuccessWins ==
  exPc = "done" =>
    LET tried == Strategies(StripThink(exInput.text))
    IN  \A k \in 1 .. Len(tried) :
          (tried[k].found /\ \A j \in 1 .. k - 1 : ~tried[j].found)
            => pair = PairOf(tried[k])

\* C25: the extraction raises on no model text and ends in a pair neither
\* member of which is null or undefined.
C25_PairNeverNull ==
  /\ exPc # "raised"
  /\ exPc = "done" =>
       /\ pair.japanese.type \notin {"null", "undefined"}
       /\ pair.english.type \notin {"null", "undefined"}

\* The text null: JSON.parse returns null and reading its property japanese
\* throws inside the try block; the pair is the text itself.
C25_Witness ==
  /\ exPc = "done"
  /\ exInput.text = NullLiteral
  /\ pair = [japanese |-> Str(NullLiteral), english |-> TranslationNotAvailable]

\* C26: a pair of strings is extracted to the same pair from the JSON
\* object, from the object in a markdown fence and from the quoted pair in a
\* sentence: from each form to what the JSON object gives.
C26_SameFromEveryForm ==
  (exPc = "done" /\ exInput.form \in Forms) =>
    pair = ExtractedPair(StripThink(CleanJson(Literal(exInput.japanese),
                                              Literal(exInput.english))))

-----------------------------------------------------------------------------
(* Claims about the error responses of the handlers                        *)

\* What the latest request of the run to the generation upstream ended in,
\* in the acquisition stage or in the translation stage.
GenUpstream == IF TranslationCalled THEN last ELSE upstream

RateLimited(o) == o.kind = "resp" /\ o.status = 429
Unavailable(o) == o.kind = "resp" /\ o.status = 503

\* C21: a run of the generate handler that ends after the generation
\* upstream answered its latest request with a 429 or a 503, in either
\* stage, is answered with an error marked RATE_LIMIT respectively
\* SERVICE_UNAVAILABLE.  Checked under SpecGenerate.
C21_UpstreamStatusMarked ==
  genPc = "responded" =>
    /\ RateLimited(GenUpstream) => genResponse.errorType = "RATE_LIMIT"
    /\ Unavailable(GenUpstream) => genResponse.errorType = "SERVICE_UNAVAILABLE"

-----------------------------------------------------------------------------
(* Claims about all handlers, checked under SpecHandlers                   *)

\* The request of the running handler lacks the field its mode requires:
\* vocabList or the topic, url or text of the generate handler, inputMode or
\* the topic or url of the source handler, kanji of the enrichment handler,
\* apiKey of the progress-sync handler.
GenLacksField ==
  /\ genPc # "idle" /\ genRequest.body = "json"
  /\ \/ genRequest.vocabList = "absent"
     \/ genRequest.inputMode \in {"absent", "topic", "url", "text"}
          /\ genRequest.field = "absent"

SrcLacksField ==
  /\ srcPc # "idle" /\ srcRequest.body = "json"
  /\ srcRequest.inputMode = "absent" \/ srcRequest.field = "absent"

EnrichLacksField == enrichPc # "idle" /\ enrichRequest.kind = "no kanji"

SyncLacksField == syncPc # "idle" /\ request \in {"no apiKey", "empty apiKey"}

\* C22: a request that lacks a required field is answered with status 400
\* and no request is issued for it, in each of the four handlers.
C22_ValidationBeforeNetwork ==
  /\ GenLacksField =>
       /\ genCalls = <<>> /\ calls = 0 /\ genPc \in {"start", "responded"}
       /\ genPc = "responded" => genResponse.status = 400
  /\ SrcLacksField =>
       /\ srcCalls = <<>> /\ calls = 0 /\ srcPc \in {"start", "responded"}
       /\ srcPc = "responded" => srcResponse.status = 400
  /\ EnrichLacksField =>
       /\ completed = <<>> /\ pending = {}
       /\ enrichPc \in {"start", "responded"}
       /\ enrichPc = "responded" => enrichResponse.status = 400
  /\ SyncLacksField =>
       /\ requested = <<>> /\ syncPc \in {"start", "responded"}
       /\ syncPc = "responded" => response.status = 400

\* The source handler has answered a url request without url.
C22_Witness ==
  /\ srcPc = "responded"
  /\ srcRequest = [body |-> "json", inputMode |-> "url", field |-> "absent"]
  /\ srcApiKey
  /\ srcResponse = SrcError(400, "URL is required for URL mode", "none")
  /\ srcCalls = <<>> /\ calls = 0

\* The source handler has answered with an error response, and with the
\* success payload.
SrcFailed ==
  /\ srcPc = "responded"
  /\ srcResponse.error # "none"
  /\ srcResponse.status >= 400

SrcSucceeded ==
  /\ srcPc = "responded"
  /\ srcResponse.error = "none"
  /\ srcResponse.status = 200
  /\ srcResponse.sourceContent # <<>>

\* C23: a run of the generate or of the source handler has no response
\* before it ends, it can always go on until it ends, no exception leaves
\* callVeniceWithRetry, and it ends with the success payload or with an
\* error payload that carries a message.
C23_AlwaysOneResponse ==
  /\ retryPc # "thrown"
  /\ genPc \notin {"idle", "responded"} =>
       genResponse = NoGenResponse /\ ENABLED GenNext
  /\ srcPc \notin {"idle", "responded"} =>
       srcResponse = NoSrcResponse /\ ENABLED SrcNext
  /\ genPc = "responded" => GenSucceeded \/ GenFailed
  /\ srcPc = "responded" => SrcSucceeded \/ SrcFailed

\* Every attempt of the call of topic mode ended in a transport failure:
\* the source handler answers with the generic upstream error.
C23_Witness ==
  /\ srcPc = "responded"
  /\ srcRequest.inputMode = "topic"
  /\ calls = 3 /\ last = TransportFailure
  /\ srcResponse = SrcError(500, "Failed to gather news", "API_ERROR")

-----------------------------------------------------------------------------
(* Claims about concurrent runs, checked under SpecRuns                    *)

\* callVeniceWithRetry alone on the outcomes outs, from attempt a on: the
\* result it returns, NoResult when it has not returned after them.
RECURSIVE SoloCall(_, _)
SoloCall(outs, a) ==
  IF outs = <<>> \/ a > 2 THEN NoResult
  ELSE LET it == Iteration(Head(outs), a, 2)
       IN  IF it.kind = "return" THEN it.value
           ELSE SoloCall(Tail(outs), a + 1)

\* C28: the response of each of two interleaved runs is the response the
\* run gives alone to its request, to the outcomes of its own requests and
\* to its own reply.
C28_RunsIndependent ==
  \A r \in Runs :
    runs[r].pc = "responded" =>
      runs[r].response =
        RunResponse(runs[r].request, SoloCall(runs[r].seen, 0), runs[r].reply)

\* Run 1 has waited twice and failed at its third request while run 2 made
\* its one request in between and succeeded.
C28_Witness ==
  /\ runs[1].pc = "responded" /\ runs[2].pc = "responded"
  /\ Len(runs[1].seen) = 3 /\ runs[1].seen[3].status = 429
  /\ runs[1].response.payload.status = 429
  /\ Len(runs[2].seen) = 1 /\ runs[2].response.payload.status = 200
  /\ frames = [r \in Runs |-> IF r = 1 THEN 2 ELSE 0]

-----------------------------------------------------------------------------
(* Claims about the status a failed call returns, checked under            *)
(* SpecHandlers                                                            *)

\* callVeniceWithRetry has returned ok = false to the handler named.
SrcCallFailed == srcPc = "responded" /\ retryPc = "returned" /\ ~result.ok
GenCallFailed == genPc = "responded" /\ retryPc = "returned" /\ ~result.ok

\* The status the claim expects of a failed call: that of the last response
\* received, 0 when the last request got none.
LastStatus == IF last.kind = "resp" THEN last.status ELSE 0

\* The marks of the handlers follow the status of the result alone, and a
\* result without status is answered with 500.
SrcClassifiedByStatus ==
  SrcCallFailed =>
    /\ srcResponse.errorType = "RATE_LIMIT" <=> result.status = 429
    /\ srcResponse.errorType = "SERVICE_UNAVAILABLE" <=> result.status = 503
    /\ result.status = 0 => srcResponse.status = 500

GenClassifiedByStatus ==
  GenCallFailed =>
    /\ genResponse.errorType = "RATE_LIMIT" <=> result.status = 429
    /\ genResponse.errorType = "AUTH_ERROR" <=> result.status = 401
    /\ genResponse.errorType = "SERVICE_UNAVAILABLE" <=> result.status = 503
    /\ result.status = 0 => genResponse.status = 500

\* C31: a call that returns ok = false returns the status of the last
\* response it received, 0 after a transport failure; the source handler
\* and the translation stage of the generate handler mark the error by this
\* status alone and answer a failure without status with 500.
C31_FinalStatusIsLast ==
  /\ (retryPc = "returned" /\ ~result.ok) => result.status = LastStatus
  /\ SrcClassifiedByStatus
  /\ GenClassifiedByStatus

-----------------------------------------------------------------------------
(* Claims about the last resort of the extraction, checked under           *)
(* SpecExtract                                                             *)

\* rawContent of the model text drawn, as line 366 leaves it.
RawContent == StripThink(exInput.text)

\* Every strategy fails on content.
AllStrategiesFail(content) ==
  \A k \in 1 .. 4 : ~Strategies(content)[k].found

\* part is a stretch of whole: whole without some characters at its start
\* and some at its end.
IsStretchOf(part, whole) ==
  \E i \in 1 .. Len(whole) + 1, j \in 0 .. Len(whole) :
    part = SubSeq(whole, i, j)

\* content has none of the marks cleanJsonArtifacts looks for: no brace at
\* its start or end, and nowhere the word english.
NoArtifacts(content) ==
  /\ ~At(content, 1, "{")
  /\ ~At(content, Len(content), "}")
  /\ \A i \in 1 .. Len(content) : content[i].tok # "english"

\* C32 as stated: when every strategy fails, japanese is rawContent
\* unchanged and english is the placeholder.
C32_FallbackIsRawText ==
  (exPc = "done" /\ AllStrategiesFail(RawContent)) =>
    pair = [japanese |-> Str(RawContent), english |-> TranslationNotAvailable]

\* C32 amended: when every strategy fails, english is the placeholder and
\* japanese is a stretch of rawContent, the whole of it when rawContent has
\* no brace at its start or end and nowhere the word english.
C32_FallbackIsCleanedText ==
  (exPc = "done" /\ AllStrategiesFail(RawContent)) =>
    /\ pair.english = TranslationNotAvailable
    /\ IsString(pair.japanese)
    /\ IsStretchOf(pair.japanese.str, RawContent)
    /\ NoArtifacts(RawContent) => pair.japanese.str = RawContent

\* An object whose keys and strings are not quoted: no strategy finds a
\* pair in it, and the braces, the key japanese and the english member are
\* cut off.
C32_Witness ==
  /\ exPc = "done"
  /\ RawContent = Text(<<"{", "japanese", ":", "space", "word", ",", "space",
                         "english", ":", "space", "x", "}">>)
  /\ AllStrategiesFail(RawContent)
  /\ pair = [japanese |-> Str(Text(<<"word">>)),
             english |-> TranslationNotAvailable]

-----------------------------------------------------------------------------
(* Claims about the reasoning-trace stripping, checked under SpecExtract   *)

\* C34: what the stripping returns holds no opening delimiter in any letter
\* case, and stripping it again changes nothing.
C34_StrippedAndStable ==
  exPc = "done" =>
    /\ Opens(RawContent) = {}
    /\ StripThink(RawContent) = RawContent

\* The paired block stood between the two parts of an opening delimiter:
\* removing it makes a delimiter, which the second replacement removes.
C34_Witness ==
  /\ exPc = "done"
  /\ exInput.text = Text(<<"<thi", "open", "close", "nk>">>)
  /\ StripPaired(exInput.text) = Text(<<"<thi", "nk>">>)
  /\ RawContent = <<>>

-----------------------------------------------------------------------------
(* Claims about highlightText and the two kanji extractions, checked under *)
(* SpecHighlight                                                           *)

\* The characters of the highlighted segments, in the order of the
\* segments.
HighlightedChars ==
  LET IsBold(seg) == seg.highlighted
      bold == SelectSeq(segments, IsBold)
  IN  [i \in 1 .. Len(bold) |-> bold[i].text[1]]

\* C38: the characters highlightText emits as highlighted segments are,
\* element for element and in the same order, the list extractUnknownKanji
\* returns for the same text and vocabulary list.
C38_HighlightedAreExtracted ==
  hlPc \in {"null", "rendered"} =>
    HighlightedChars = extractUnknownKanji(text, vocabList)

\* U+9FAF, U+4E00, U+9FAF with an empty vocabulary list: both give U+9FAF,
\* U+4E00.
C38_Witness ==
  /\ hlPc = "rendered"
  /\ text = <<40879, 19968, 40879>>
  /\ vocabList = <<>>
  /\ HighlightedChars = <<40879, 19968>>
  /\ extractUnknownKanji(text, vocabList) = <<40879, 19968>>

\* C39: every character the kanji extraction accepts as an ideograph and
\* that no word of the vocabulary list holds is highlighted at its first
\* occurrence in the text.
C39_EveryIdeographHighlighted ==
  hlPc = "rendered" =>
    \A i \in 1 .. Len(text) :
      ( /\ MatchesKanjiRegex(text[i])
        /\ ~IsKnown(vocabList, text[i])
        /\ \A j \in 1 .. i - 1 : text[j] # text[i] )
        => \E k \in 1 .. Len(segments) : segments[k] = BoldSegment(text[i])


-----------------------------------------------------------------------------
(* Claims about the client, checked under SpecClient                       *)

\* The run of handleGenerate started last (0 before the first).
LatestRun == Cardinality(RunsStarted)

\* C35: at most one run of handleGenerate is in progress at any time, and
\* the content on the page was set by the run started last, never by a
\* response of an earlier run.
C35_OneRunAtATime ==
  /\ Cardinality(RunsInProgress) <= 1
  /\ page.generatedContent # <<>> => clientHistory.writer = LatestRun


\* The value kanjiInfo has when it is in step with the page p.
InStep(p) ==
  IF p.generatedContent = <<>>
    THEN KanjiInfoFor(<<>>)
    ELSE KanjiInfoFor(extractUnknownKanji(p.generatedContent, p.vocabList))

\* C36: once every lookup has settled, and none has failed, kanjiInfo is the
\* answer to the lookup for the unknown kanji of the current
\* generatedContent and vocabList.
C36_KanjiInfoInStep ==
  kanjiLookups = <<>> /\ ~clientHistory.lookupFailed
    => page.kanjiInfo = InStep(page)

\* C37: kanjiInfo is a list in every state.
C37_KanjiInfoIsList == page.kanjiInfo.kind = "list"

\* C40: isLoading and isTranslating are never both true, and both are
\* false when a call of handleGenerate has just ended.
C40_FlagsOfARun ==
  /\ ~(page.isLoading /\ page.isTranslating)
  /\ clientHistory.lastEnded => ~page.isLoading /\ ~page.isTranslating

=============================================================================
